---- MODULE Spec2Model ----
(***************************************************************************)
(* A model of the retrieval-and-generation core of the studyai backend:    *)
(*   - the streaming thinking-tag scrubber of the LLM providers (SpecLLM),  *)
(*   - the vector store: docs collection (SpecDocs), semantic cache        *)
(*     (SpecCache),                                                        *)
(*   - the Chat handler (SpecChat),                                        *)
(*   - the Celery ingestion worker process_document_task (SpecTask, and    *)
(*     SpecIngest with the loss of the worker process),                    *)
(*   - UploadDocument and DeleteDocument of KnowledgeBaseService (SpecKb), *)
(*   - the context budget of TokenCounter (SpecBudget).                    *)
(* Each subsystem has its own specification; the variables of the other    *)
(* subsystems stay at their initial values.                                *)
(***************************************************************************)
EXTENDS Integers, Sequences, FiniteSets, TLC

(***************************************************************************)
(* Bounds and program constants                                            *)
(***************************************************************************)
\* number of vendor tokens concatenated into one vendor output
MaxTokens == 3

\* number of calls made to the vector store
MaxCalls == 3
\* number of entries the semantic cache may hold
MaxCache == 1
\* number of Chat calls
MaxChats == 2
\* number of chunks one LLM stream yields
MaxLLMChunks == 2
\* number of chunks parsing a file yields
MaxChunks == 2
\* number of leading upsert calls the vector engine may fail
MaxUpsertFaults == 2
\* number of times the worker process may be lost during one task
MaxLost == 1
\* number of KnowledgeBaseService calls
MaxKbCalls == 3
\* number of context documents of one truncate_context_docs call
MaxDocs == 3
\* number of tokens of one context document
MaxDocTokens == 2

\* the value None of an optional argument or payload field
None == 0

\* tenants and documents of the model
Users == {1, 2}
Groups == {1, 2}
Orgs == {1, 2}
DocIds == {1, 2}
\* query / chunk embeddings, as points on a line: Sim gives the cosine score
Vectors == {1, 2}
\* cosine scores in hundredths
Sim(a, b) == IF a = b THEN 100 ELSE 90
\* `threshold=0.95` of search_cache
DefaultThreshold == 95
\* `limit=25` of the document search
SearchLimit == 25

VARIABLES
    \* ---- LLM provider (generate_response) ----
    provider,      \* which backend runs
    vendor,        \* the whole vendor output, a sequence of characters
    pos,           \* number of characters of vendor delivered so far
    bufLo,         \* buffer = vendor[bufLo..pos]
    is_thinking,   \* the scrubber's flag
    outPos,        \* positions of vendor emitted to the caller, in order
    errChunks,     \* number of synthetic "Error generating response" chunks
    vendor_raised, \* has the vendor call or the vendor stream raised
    llm_pc,        \* "stream" | "done"
    \* ---- vector store ----
    docsColl,      \* the docs collection: a set of points, ids unique
    cacheColl,     \* the cache collection: a set of entries, ids unique
    lastSearch,    \* the last search_with_tenant_filter call and its result
    lastCache,     \* the last search_cache / save_to_cache call and its result
    storeCalls,    \* number of calls made to the vector store
    \* ---- chunk store ----
    chunkRows,     \* the rows of document_chunks
    \* ---- ChatService.Chat ----
    chat_pc,       \* where the call in flight is
    req,           \* its metadata and query embedding
    msgs,          \* the response messages it has yielded
    raw_hits,      \* the hits of its document search
    ranked,        \* ranked_results
    passages,      \* the passages handed to the reranker
    context_docs,  \* the context handed to the LLM
    llm_error,     \* its flag
    full_response, \* the chunks collected for caching
    calls,         \* the collaborators the call has invoked, in order
    llm_out,       \* the chunks the LLM client has produced, in order
    chatCount,     \* number of calls started
    \* ---- process_document_task ----
    task_pc,       \* "queued" | "parse" | "store" | "embed" | "upsert" | "finally" | "done"
    file,          \* the uploaded file
    file_on_disk,  \* does file_path exist
    attempt,       \* number of attempts started
    retries,       \* self.request.retries
    final_status,  \* the local of the same name
    final_chunks_count,
    final_error_message,
    chunk_ids,     \* the ids store_chunks_sync returned
    body_result,   \* how the body of the attempt ended: "return" | "retry" | "failure"
    notifications, \* the status calls made to the control plane, in order
    upsert_calls,  \* number of upsert calls made to the vector engine
    upsert_plan,   \* number of leading upsert calls the engine fails
    other_faults,  \* number of other failures (parser, database, embedder)
    lost,          \* number of times the worker process was lost
    \* ---- KnowledgeBaseService ----
    documents,     \* the rows of documents
    links,         \* the rows of user_documents, as <<user_id, document_id>>
    kb_resp,       \* the response of the last call
    kb_sent,       \* the number of bytes the client streamed in the last call
    kb_stream,     \* the shape of the request stream of the last call
    uploads,       \* the UploadDocument calls that run concurrently, by user
    kbCalls,       \* number of calls made
    \* ---- TokenCounter.truncate_context_docs ----
    tc_args,       \* the settings and the arguments of the call
    tc_result      \* what the call returned

llmVars == <<provider, vendor, pos, bufLo, is_thinking, outPos, errChunks,
            vendor_raised, llm_pc>>
storeVars == <<docsColl, cacheColl, lastSearch, lastCache, storeCalls>>
dbVars == <<chunkRows>>
chatVars == <<chat_pc, req, msgs, raw_hits, ranked, passages, context_docs, llm_error,
              full_response, chatCount,
              calls, llm_out>>
taskVars == <<task_pc, file, file_on_disk, attempt, retries, final_status,
              final_chunks_count, final_error_message, chunk_ids, body_result,
              notifications,
              upsert_calls, upsert_plan, other_faults, lost>>
kbVars == <<documents, links, kb_resp, kb_sent, kb_stream, kbCalls, uploads>>
tcVars == <<tc_args, tc_result>>
vars == <<llmVars, storeVars, dbVars, chatVars, taskVars, kbVars, tcVars>>

\* no call made yet
NoCall == [op |-> "none"]

(***************************************************************************)
(* Strings are sequences of one-character strings.                         *)
(***************************************************************************)
T_think      == <<"<", "t", "h", "i", "n", "k", ">">>
T_thinking   == <<"<", "t", "h", "i", "n", "k", "i", "n", "g", ">">>
T_ethink     == <<"<", "/", "t", "h", "i", "n", "k", ">">>
T_ethinking  == <<"<", "/", "t", "h", "i", "n", "k", "i", "n", "g", ">">>

START_TAGS == <<T_think, T_thinking>>
END_TAGS   == <<T_ethink, T_ethinking>>

\* the pieces vendor outputs are built from
VendorTokens == {T_think, T_thinking, T_ethink, T_ethinking, <<"a">>, <<"<">>}

Providers == {"openai", "anthropic", "gemini"}

RECURSIVE Concat(_)
Concat(ss) == IF ss = <<>> THEN <<>> ELSE Head(ss) \o Concat(Tail(ss))

VendorOutputs ==
    UNION {{Concat(ts) : ts \in [1..n -> VendorTokens]} : n \in 0..MaxTokens}

\* s[i..] starts with tag  (str.startswith at an offset)
TagAt(s, i, tag) ==
    /\ i >= 1
    /\ i + Len(tag) - 1 <= Len(s)
    /\ SubSeq(s, i, i + Len(tag) - 1) = tag

\* `tag in s[lo..hi]`
TagIn(s, lo, hi, tag) ==
    \E i \in lo..hi : i + Len(tag) - 1 <= hi /\ TagAt(s, i, tag)

\* s[lo..hi].find(tag), as a position of s; the tag is in s[lo..hi]
TagFind(s, lo, hi, tag) ==
    CHOOSE i \in lo..hi :
        /\ i + Len(tag) - 1 <= hi /\ TagAt(s, i, tag)
        /\ \A j \in lo..(i-1) : ~(j + Len(tag) - 1 <= hi /\ TagAt(s, j, tag))

\* the first tag of the list (in list order) that occurs in s[lo..hi]; 0 if none
FirstTagIn(tags, s, lo, hi) ==
    IF \E n \in 1..Len(tags) : TagIn(s, lo, hi, tags[n])
    THEN CHOOSE n \in 1..Len(tags) :
            /\ TagIn(s, lo, hi, tags[n])
            /\ \A m \in 1..(n-1) : ~TagIn(s, lo, hi, tags[m])
    ELSE 0

\* s[lo..hi].rfind("<"); 0 if none
RFindOpen(s, lo, hi) ==
    IF \E i \in lo..hi : s[i] = "<"
    THEN CHOOSE i \in lo..hi : s[i] = "<" /\ \A j \in (i+1)..hi : s[j] # "<"
    ELSE 0

\* tag.startswith(s[lo..hi]) and s[lo..hi] != tag, for some start tag
IsPartialTag(s, lo, hi) ==
    \E n \in 1..Len(START_TAGS) :
        LET tag == START_TAGS[n] IN
        /\ hi - lo + 1 <= Len(tag)
        /\ SubSeq(tag, 1, hi - lo + 1) = SubSeq(s, lo, hi)
        /\ SubSeq(s, lo, hi) # tag

(***************************************************************************)
(* One iteration of the scrubbing loop of OpenAIProvider and               *)
(* AnthropicProvider.  The buffer after `buffer += content` is s[lo..hi].  *)
(* The result gives the new start of the buffer, the new flag and the      *)
(* interval of s that the iteration yields (empty when eHi < eLo).         *)
(***************************************************************************)
ScrubIter(s, lo, hi, thinking) ==
    IF thinking
    THEN LET n == FirstTagIn(END_TAGS, s, lo, hi) IN
         IF n # 0
         THEN [lo |-> TagFind(s, lo, hi, END_TAGS[n]) + Len(END_TAGS[n]),
               thinking |-> FALSE, eLo |-> 1, eHi |-> 0]
         ELSE [lo |-> lo, thinking |-> TRUE, eLo |-> 1, eHi |-> 0]
    ELSE LET n == FirstTagIn(START_TAGS, s, lo, hi) IN
         IF n # 0
         THEN LET at == TagFind(s, lo, hi, START_TAGS[n]) IN
              [lo |-> at + Len(START_TAGS[n]), thinking |-> TRUE,
               eLo |-> lo, eHi |-> at - 1]
         ELSE LET last == RFindOpen(s, lo, hi) IN
              IF last # 0 /\ IsPartialTag(s, last, hi)
              THEN \* yield safe_part (if any) and keep the potential tag
                   [lo |-> last, thinking |-> FALSE, eLo |-> lo, eHi |-> last - 1]
              ELSE \* no tags detected: yield the entire buffer
                   [lo |-> hi + 1, thinking |-> FALSE, eLo |-> lo, eHi |-> hi]

\* the interval as a sequence of positions
Interval(a, b) == [i \in 1..(IF b >= a THEN b - a + 1 ELSE 0) |-> a + i - 1]

(***************************************************************************)
(* generate_response                                                       *)
(***************************************************************************)
InitLLMVars ==
    /\ provider \in Providers
    /\ vendor \in VendorOutputs
    /\ pos = 0
    /\ bufLo = 1
    /\ is_thinking = FALSE
    /\ outPos = <<>>
    /\ errChunks = 0
    /\ vendor_raised = FALSE
    /\ llm_pc = "stream"

\* the vendor delivers the next k characters as one stream chunk (k = 0 is a
\* chunk without content) to the scrubbing loop of OpenAI / Anthropic
ScrubChunk ==
    /\ llm_pc = "stream"
    /\ provider \in {"openai", "anthropic"}
    /\ \E k \in 0..(Len(vendor) - pos) :
        IF k = 0
        THEN UNCHANGED llmVars
        ELSE LET r == ScrubIter(vendor, bufLo, pos + k, is_thinking) IN
             /\ pos' = pos + k
             /\ bufLo' = r.lo
             /\ is_thinking' = r.thinking
             /\ outPos' = outPos \o Interval(r.eLo, r.eHi)
             /\ UNCHANGED <<provider, vendor, errChunks, vendor_raised, llm_pc>>

\* Gemini: `if chunk.text: yield chunk.text`
GeminiChunk ==
    /\ llm_pc = "stream"
    /\ provider = "gemini"
    /\ \E k \in 0..(Len(vendor) - pos) :
        /\ pos' = pos + k
        /\ bufLo' = pos + k + 1
        /\ outPos' = outPos \o Interval(pos + 1, pos + k)
        /\ UNCHANGED <<provider, vendor, is_thinking, errChunks, vendor_raised,
                     llm_pc>>

\* the vendor stream ends: the remaining buffer is yielded if not thinking
StreamEnd ==
    /\ llm_pc = "stream"
    /\ pos = Len(vendor)
    /\ llm_pc' = "done"
    /\ IF provider # "gemini" /\ bufLo <= pos /\ ~is_thinking
       THEN /\ outPos' = outPos \o Interval(bufLo, pos)
            /\ bufLo' = pos + 1
       ELSE UNCHANGED <<outPos, bufLo>>
    /\ UNCHANGED <<provider, vendor, pos, is_thinking, errChunks, vendor_raised>>

\* an exception that leaves generate_response: the generator ends by raising
StreamRaise_propagates ==
    /\ llm_pc = "stream"
    /\ vendor_raised' = TRUE
    /\ llm_pc' = "raised"
    /\ UNCHANGED <<provider, vendor, pos, bufLo, is_thinking, outPos, errChunks>>

\* the vendor call or the vendor stream raises, at any point of the stream:
\* `except Exception as e` yields one synthetic error chunk and the generator
\* ends; the buffer is not flushed
StreamRaise ==
    /\ llm_pc = "stream"
    /\ vendor_raised' = TRUE
    /\ llm_pc' = "done"
    /\ errChunks' = errChunks + 1
    /\ UNCHANGED <<provider, vendor, pos, bufLo, is_thinking, outPos>>

(***************************************************************************)
(* A whole run of the scrubbing loop on the text s, delivered in the       *)
(* chunks s[1..cuts[1]], s[cuts[1]+1..cuts[2]], ...: the positions of s    *)
(* the run yields, the flush at the end of the stream included.            *)
(***************************************************************************)
RECURSIVE ScrubFrom(_, _, _, _, _)
ScrubFrom(s, cuts, i, lo, thinking) ==
    IF i > Len(cuts)
    THEN \* after the stream ends
         IF lo <= Len(s) /\ ~thinking THEN Interval(lo, Len(s)) ELSE <<>>
    ELSE LET r == ScrubIter(s, lo, cuts[i], thinking) IN
         Interval(r.eLo, r.eHi) \o ScrubFrom(s, cuts, i + 1, r.lo, r.thinking)

\* the text at the positions ps of s
TextAt(s, ps) == [i \in 1..Len(ps) |-> s[ps[i]]]

\* the concatenated output of the run
ScrubRun(s, cuts) == TextAt(s, ScrubFrom(s, cuts, 1, 1, FALSE))

\* the text delivered as a single chunk / one character per chunk
SingleChunk(s) == IF s = <<>> THEN <<>> ELSE <<Len(s)>>
CharChunks(s) == [i \in 1..Len(s) |-> i]

(***************************************************************************)
(* Vector store.  A point of the docs collection is a record               *)
(*   [id, vec, document_id, organization_id, group_id, owner_id];          *)
(* an entry of the cache collection is a record                            *)
(*   [id, vec, response_text, organization_id, group_ids, user_id]         *)
(* where a payload key that is absent has the value None ({} for the       *)
(* group_ids array).                                                       *)
(***************************************************************************)
PointIds == {1, 2}

\* the embedder is a pure function of the text; a chunk's text is identified
\* by its id
VecOf(id) == (id % Cardinality(Vectors)) + 1

\* models.FieldCondition with MatchValue / MatchAny against a payload.  A key
\* whose payload value is an array matches if any of its elements does.
Matches(p, c) ==
    IF c.kind = "value"
    THEN p[c.key] # None /\ p[c.key] = c.value
    ELSE IF c.key = "group_ids"
         THEN p[c.key] \cap c.any # {}
         ELSE p[c.key] # None /\ p[c.key] \in c.any

\* models.Filter(must=conds)
FilterMust(p, conds) == \A n \in 1..Len(conds) : Matches(p, conds[n])

\* client.query_points(collection, query, query_filter, limit, score_threshold):
\* the possible results, each a sequence of points by descending score
QueryPoints(coll, qv, conds, limit, threshold) ==
    LET cand == {p \in coll : FilterMust(p, conds) /\ Sim(qv, p.vec) >= threshold}
        n == IF Cardinality(cand) < limit THEN Cardinality(cand) ELSE limit
    IN {r \in [1..n -> cand] :
            /\ \A i, j \in 1..n : i # j => r[i] # r[j]
            /\ \A i, j \in 1..n : i < j => Sim(qv, r[i].vec) >= Sim(qv, r[j].vec)
            /\ \A p \in cand : (\A i \in 1..n : r[i] # p) =>
                   \A i \in 1..n : Sim(qv, r[i].vec) >= Sim(qv, p.vec)}

\* client.upsert(collection, points): id collisions overwrite
Upsert(coll, points) ==
    {p \in coll : \A q \in points : q.id # p.id} \cup points

\* the payload built by upsert_vectors_with_metadata and by the worker
DocPoint(chunk_id, document_id, organization_id, group_id, owner_id) ==
    [id |-> chunk_id, vec |-> VecOf(chunk_id), document_id |-> document_id,
     organization_id |-> organization_id, group_id |-> group_id,
     owner_id |-> owner_id]

\* VectorStore.upsert_vectors_with_metadata
upsert_vectors_with_metadata ==
    \E ids \in SUBSET PointIds, d \in DocIds, o \in Orgs,
       g \in Groups \cup {None}, u \in Users :
        /\ storeCalls < MaxCalls
        /\ ids # {}                  \* `if not vectors: return 0`
        /\ docsColl' = Upsert(docsColl, {DocPoint(i, d, o, g, u) : i \in ids})
        /\ lastSearch' = NoCall
        /\ storeCalls' = storeCalls + 1
        /\ UNCHANGED <<cacheColl, lastCache>>

\* VectorStore.upsert_vectors_with_chunk_ids: no tenancy payload
upsert_vectors_with_chunk_ids ==
    \E ids \in SUBSET PointIds, d \in DocIds :
        /\ storeCalls < MaxCalls
        /\ ids # {}
        /\ docsColl' = Upsert(docsColl, {DocPoint(i, d, None, None, None) : i \in ids})
        /\ lastSearch' = NoCall
        /\ storeCalls' = storeCalls + 1
        /\ UNCHANGED <<cacheColl, lastCache>>

\* VectorStore.delete_by_document_id
DeleteByDocument(coll, d) == {p \in coll : p.document_id # d}

delete_by_document_id ==
    \E d \in DocIds :
        /\ storeCalls < MaxCalls
        /\ docsColl' = DeleteByDocument(docsColl, d)
        /\ lastSearch' = NoCall
        /\ storeCalls' = storeCalls + 1
        /\ UNCHANGED <<cacheColl, lastCache>>

\* the variant that also requires the payload organization_id to match
TenantFilter_orgMust(organization_id, group_ids, user_id) ==
    LET orgCond == IF organization_id # None
                   THEN <<[key |-> "organization_id", kind |-> "value",
                           value |-> organization_id]>>
                   ELSE <<>>
    IN IF group_ids # {}
       THEN orgCond \o <<[key |-> "group_id", kind |-> "any", any |-> group_ids]>>
       ELSE IF user_id # None
            THEN orgCond \o <<[key |-> "owner_id", kind |-> "value", value |-> user_id]>>
            ELSE <<>>

\* the filter conditions search_with_tenant_filter builds; <<>> when it
\* returns [] without calling the engine
TenantFilter(organization_id, group_ids, user_id) ==
    IF group_ids # {}
    THEN <<[key |-> "group_id", kind |-> "any", any |-> group_ids]>>
    ELSE IF user_id # None
         THEN <<[key |-> "owner_id", kind |-> "value", value |-> user_id]>>
         ELSE <<>>

\* VectorStore.search_with_tenant_filter: the possible outcomes, as records
\* [engine: was the engine called, raised: did it raise, points: the result]
SearchWithTenantFilter(coll, qv, organization_id, group_ids, user_id, limit) ==
    LET conds == TenantFilter(organization_id, group_ids, user_id) IN
    IF conds = <<>>
    THEN {[engine |-> FALSE, raised |-> FALSE, points |-> <<>>]}
    ELSE {[engine |-> TRUE, raised |-> FALSE, points |-> r] :
              r \in QueryPoints(coll, qv, conds, limit, 0)}
         \cup {[engine |-> TRUE, raised |-> TRUE, points |-> <<>>]}

search_with_tenant_filter ==
    \E qv \in Vectors, o \in Orgs \cup {None}, gs \in SUBSET Groups,
       u \in Users \cup {None} :
        \E res \in SearchWithTenantFilter(docsColl, qv, o, gs, u, SearchLimit) :
            /\ storeCalls < MaxCalls
            /\ storeCalls' = storeCalls + 1
            /\ lastSearch' = [op |-> "search", qv |-> qv, organization_id |-> o,
                              group_ids |-> gs, user_id |-> u, res |-> res]
            /\ UNCHANGED <<docsColl, cacheColl, lastCache>>

(***************************************************************************)
(* Semantic cache                                                          *)
(***************************************************************************)
\* the variant that puts no condition on user_id in the user scope
CacheFilter_noUser(organization_id, user_id, group_ids) ==
    LET orgCond == IF organization_id # None
                   THEN <<[key |-> "organization_id", kind |-> "value",
                           value |-> organization_id]>>
                   ELSE <<>>
    IN IF group_ids # {}
       THEN orgCond \o <<[key |-> "group_ids", kind |-> "any", any |-> group_ids]>>
       ELSE IF user_id # None
            THEN orgCond
            ELSE "skip"

\* the filter conditions search_cache builds; "skip" when there is no scope
\* context and the cache is skipped
CacheFilter(organization_id, user_id, group_ids) ==
    LET orgCond == IF organization_id # None
                   THEN <<[key |-> "organization_id", kind |-> "value",
                           value |-> organization_id]>>
                   ELSE <<>>
    IN IF group_ids # {}
       THEN orgCond \o <<[key |-> "group_ids", kind |-> "any", any |-> group_ids]>>
       ELSE IF user_id # None
            THEN orgCond \o <<[key |-> "user_id", kind |-> "value", value |-> user_id]>>
            ELSE "skip"

\* VectorStore.search_cache: the possible outcomes, as records
\* [engine: was the engine called, raised: did it raise (the method then
\*  returns None), hits: the CacheHit, a sequence of at most one entry]
SearchCache(coll, qv, organization_id, user_id, group_ids, threshold) ==
    LET conds == CacheFilter(organization_id, user_id, group_ids) IN
    IF conds = "skip"
    THEN {[engine |-> FALSE, raised |-> FALSE, hits |-> <<>>]}
    ELSE {[engine |-> TRUE, raised |-> FALSE, hits |-> r] :
              r \in QueryPoints(coll, qv, conds, 1, threshold)}
         \cup {[engine |-> TRUE, raised |-> TRUE, hits |-> <<>>]}

\* the entry save_to_cache builds: a key is in the payload only if its
\* argument is given
CacheEntry(cache_id, qv, response_text, organization_id, user_id, group_ids) ==
    [id |-> cache_id, vec |-> qv, response_text |-> response_text,
     organization_id |-> organization_id,
     group_ids |-> group_ids,
     user_id |-> user_id]

\* str(uuid.uuid4()): an id no entry has
FreshCacheId(coll) == Cardinality(coll) + 1

\* VectorStore.save_to_cache: the possible collections afterwards (the engine
\* may raise, which the method swallows)
\* `if not group_ids and user_id is None: return None` does not hold
HasCacheScope(user_id, group_ids) == ~(group_ids = {} /\ user_id = None)

SaveToCache(coll, qv, response_text, organization_id, user_id, group_ids) ==
    IF ~HasCacheScope(user_id, group_ids)
    THEN {coll}
    ELSE {coll,
          Upsert(coll, {CacheEntry(FreshCacheId(coll), qv, response_text,
                                   organization_id, user_id, group_ids)})}

\* the query vectors saved by direct calls
SavedVectors == {1}

save_to_cache ==
    \E qv \in SavedVectors, o \in Orgs \cup {None}, u \in Users \cup {None},
       gs \in SUBSET Groups :
        \E c \in SaveToCache(cacheColl, qv, "answer", o, u, gs) :
            /\ Cardinality(c) <= MaxCache
            /\ cacheColl' = c
            /\ lastCache' = [op |-> "save_to_cache", user_id |-> u, group_ids |-> gs,
                             engine |-> HasCacheScope(u, gs),
                             wrote |-> (c # cacheColl)]
            /\ UNCHANGED <<docsColl, lastSearch, storeCalls>>

search_cache ==
    \E qv \in Vectors, o \in Orgs \cup {None}, u \in Users \cup {None},
       gs \in SUBSET Groups :
        \E res \in SearchCache(cacheColl, qv, o, u, gs, DefaultThreshold) :
            /\ lastCache' = [op |-> "search_cache", qv |-> qv, organization_id |-> o,
                             user_id |-> u, group_ids |-> gs, res |-> res]
            /\ UNCHANGED <<docsColl, cacheColl, lastSearch, storeCalls>>

(***************************************************************************)
(* ChatService.Chat.  One call is in flight at a time; each await of the   *)
(* handler is one step.  A response text is the record                     *)
(*   [from: the tenant context of the call it was generated for,           *)
(*    docs: the documents whose chunks were its context].                  *)
(***************************************************************************)
\* kinds of chunk the LLM client yields: text, whitespace only, or the
\* synthetic chunk that starts with "Error"
ChunkKinds == {"text", "blank", "error"}

\* a metadata value: absent, or a string of characters
NoHeader == [present |-> FALSE, value |-> <<>>]
Header(s) == [present |-> TRUE, value |-> s]

\* the x-user-id values the calls carry
UserIdHeaders ==
    {NoHeader} \cup
    {Header(s) : s \in {<<>>, <<"1">>, <<"2">>, <<"x">>, <<"1", "_", "2">>}}

\* int(s) of Python for a str: surrounding whitespace is stripped, a sign
\* may lead, and single underscores may separate the digits
DigitChars == {"0", "1", "2", "3", "4", "5", "6", "7", "8", "9"}
DigitVal(c) ==
    CASE c = "0" -> 0 [] c = "1" -> 1 [] c = "2" -> 2 [] c = "3" -> 3
      [] c = "4" -> 4 [] c = "5" -> 5 [] c = "6" -> 6 [] c = "7" -> 7
      [] c = "8" -> 8 [] c = "9" -> 9

RECURSIVE Strip(_)
Strip(s) ==
    IF s = <<>> THEN s
    ELSE IF Head(s) = " " THEN Strip(Tail(s))
    ELSE IF s[Len(s)] = " " THEN Strip(SubSeq(s, 1, Len(s) - 1))
    ELSE s

Unsigned(s) == IF s # <<>> /\ Head(s) \in {"+", "-"} THEN Tail(s) ELSE s

\* the digits-and-underscores part is well formed
IntLiteral(d) ==
    /\ d # <<>>
    /\ d[1] \in DigitChars /\ d[Len(d)] \in DigitChars
    /\ \A i \in 1..Len(d) : d[i] \in DigitChars \cup {"_"}
    /\ \A i \in 1..(Len(d) - 1) : ~(d[i] = "_" /\ d[i + 1] = "_")

RECURSIVE Magnitude(_, _)
Magnitude(d, acc) ==
    IF d = <<>> THEN acc
    ELSE IF Head(d) = "_" THEN Magnitude(Tail(d), acc)
    ELSE Magnitude(Tail(d), 10 * acc + DigitVal(Head(d)))

\* [ok: no ValueError, value: the int]
ParseInt(s) ==
    LET t == Strip(s)
        d == Unsigned(t)
    IN IF IntLiteral(d)
       THEN [ok |-> TRUE,
             value |-> IF Head(t) = "-" THEN 0 - Magnitude(d, 0) ELSE Magnitude(d, 0)]
       ELSE [ok |-> FALSE, value |-> None]

\* get_user_id_from_context: None when x-user-id is absent, empty, or int()
\* raises ValueError
get_user_id_from_context(h) ==
    IF h.present /\ h.value # <<>> /\ ParseInt(h.value).ok
    THEN ParseInt(h.value).value
    ELSE None

\* the calls the model makes: x-user-id, x-organization-id, x-group-ids, and
\* the embedding of the query
ChatRequests ==
    {[x_user_id |-> h, user_id |-> get_user_id_from_context(h),
      organization_id |-> o, group_ids |-> gs, qv |-> 1] :
        h \in UserIdHeaders, o \in Orgs \cup {None}, gs \in {{}, {2}, {1, 2}}}

NoText == [from |-> [user_id |-> None, organization_id |-> None, group_ids |-> {}],
           docs |-> {}]

\* rs.ChatResponse(answer, source_documents, processing_time_ms, is_cached)
\* answer is a fixed sentence, a relayed chunk, a cached text, or ""
Msg(kind, text, is_cached, sources, timed) ==
    [kind |-> kind, text |-> text, is_cached |-> is_cached,
     sources |-> sources, timed |-> timed]

\* the documents and chunk rows the Chat calls run against: a group
\* document, a personal document, and a point whose chunk row is missing
SeedPoints ==
    {DocPoint(1, 1, 1, 1, 1), DocPoint(2, 2, 2, None, 2), DocPoint(3, 2, 2, 2, 2)}

SeedRows ==
    {[id |-> 1, document_id |-> 1, chunk_index |-> 0, content |-> <<"a">>],
     [id |-> 2, document_id |-> 2, chunk_index |-> 0, content |-> <<"b", "c">>]}

\* one call of a collaborator, as the handler's call log records it
Call(svc, outcome) == [svc |-> svc, outcome |-> outcome]

\* the variant that puts the message before the ones already sent
Yield_front(sent, m) == <<m>> \o sent

\* `yield rs.ChatResponse(...)`: the message goes to the client after the
\* ones already sent
Yield(sent, m) == Append(sent, m)

\* the variant in which the cache methods let the engine's error through
CacheErrorEscapes_reraised == TRUE

\* the `except Exception` clauses of search_cache and save_to_cache return
\* None: an engine error does not reach Chat
CacheErrorEscapes == FALSE

\* the variant that flags no chunk
ChunkIsError_never(k) == FALSE

\* `chunk.startswith("Error")`
ChunkIsError(k) == k = "error"

\* the `except Exception` of the handler
ChatInternalError ==
    /\ msgs' = Yield(msgs, Msg("internal_error", NoText, FALSE, <<>>, FALSE))
    /\ chat_pc' = "done"

\* entry: get_user_id_from_context, get_tenant_context_from_metadata
ChatStart ==
    /\ chat_pc \in {"idle", "done", "cancelled"}
    /\ chatCount < MaxChats
    /\ \E r \in ChatRequests :
        /\ req' = r
        /\ chatCount' = chatCount + 1
        /\ raw_hits' = <<>> /\ ranked' = <<>>
        /\ passages' = <<>> /\ context_docs' = <<>>
        /\ llm_error' = FALSE /\ full_response' = <<>>
        /\ calls' = <<>> /\ llm_out' = <<>>
        /\ IF r.user_id = None
           THEN /\ msgs' = <<Msg("unauthorized", NoText, FALSE, <<>>, FALSE)>>
                /\ chat_pc' = "done"
           ELSE /\ msgs' = <<>>
                /\ chat_pc' = "embed"
    /\ UNCHANGED <<docsColl, cacheColl, lastSearch, lastCache, storeCalls, chunkRows>>

\* 1) embedding_service.generate
ChatEmbed ==
    /\ chat_pc = "embed"
    /\ \/ /\ chat_pc' = "cache"
          /\ calls' = Append(calls, Call("embed", "ok"))
          /\ UNCHANGED msgs
       \/ /\ ChatInternalError
          /\ calls' = Append(calls, Call("embed", "raised"))
    /\ UNCHANGED <<req, chatCount, raw_hits, ranked, passages, context_docs, llm_error, full_response, llm_out,
                   docsColl, cacheColl, lastSearch, lastCache, storeCalls, chunkRows>>

\* the scope Chat hands to search_cache and save_to_cache: user_id and
\* group_ids; organization_id keeps its default None
ChatCacheOrg(r) == None

\* 2) search_cache, and the first message of a cache hit
ChatCacheLookup ==
    /\ chat_pc = "cache"
    /\ \E res \in SearchCache(cacheColl, req.qv, ChatCacheOrg(req), req.user_id,
                              req.group_ids, DefaultThreshold) :
        /\ calls' = Append(calls, Call("search_cache",
                                       IF res.raised THEN "raised"
                                       ELSE IF res.hits # <<>> THEN "hit" ELSE "miss"))
        /\ IF res.raised /\ CacheErrorEscapes
           THEN ChatInternalError
           ELSE IF res.hits # <<>>
                THEN /\ msgs' = Yield(msgs, Msg("cached", res.hits[1].response_text,
                                                TRUE, <<>>, FALSE))
                     /\ chat_pc' = "cached_tail"
                ELSE /\ chat_pc' = "search"
                     /\ UNCHANGED msgs
    /\ UNCHANGED <<req, chatCount, raw_hits, ranked, passages, context_docs, llm_error, full_response, llm_out,
                   docsColl, cacheColl, lastSearch, lastCache, storeCalls, chunkRows>>

\* the variant without the `return` after the cached messages
ChatCachedTail_fallsThrough ==
    /\ chat_pc = "cached_tail"
    /\ msgs' = Yield(msgs, Msg("empty", NoText, TRUE, <<>>, TRUE))
    /\ chat_pc' = "search"
    /\ UNCHANGED <<req, chatCount, raw_hits, ranked, passages, context_docs, llm_error, full_response, llm_out,
                   calls, docsColl, cacheColl, lastSearch, lastCache, storeCalls,
                   chunkRows>>

\* the second message of a cache hit: empty answer, elapsed time
ChatCachedTail ==
    /\ chat_pc = "cached_tail"
    /\ msgs' = Yield(msgs, Msg("empty", NoText, TRUE, <<>>, TRUE))
    /\ chat_pc' = "done"
    /\ UNCHANGED <<req, chatCount, raw_hits, ranked, passages, context_docs, llm_error, full_response, llm_out,
                   calls, docsColl, cacheColl, lastSearch, lastCache, storeCalls,
                   chunkRows>>

\* 3) search_with_tenant_filter
ChatSearch ==
    /\ chat_pc = "search"
    /\ \E res \in SearchWithTenantFilter(docsColl, req.qv, req.organization_id,
                                         req.group_ids, req.user_id, SearchLimit) :
        /\ calls' = Append(calls, Call("search", IF res.raised THEN "raised" ELSE "ok"))
        /\ IF res.raised
           THEN ChatInternalError /\ UNCHANGED raw_hits
           ELSE IF res.points = <<>>
                THEN /\ msgs' = Yield(msgs, Msg("no_documents", NoText, FALSE, <<>>, FALSE))
                     /\ chat_pc' = "done"
                     /\ UNCHANGED raw_hits
                ELSE /\ raw_hits' = res.points
                     /\ chat_pc' = "hydrate"
                     /\ UNCHANGED msgs
    /\ UNCHANGED <<req, chatCount, ranked, passages, context_docs, llm_error, full_response, llm_out,
                   docsColl, cacheColl, lastSearch, lastCache, storeCalls, chunkRows>>

\* the variant that keeps the hits without a chunk row, with an empty text
RECURSIVE Passages_unhydrated(_, _)
Passages_unhydrated(hits, rows) ==
    IF hits = <<>> THEN <<>>
    ELSE LET h == Head(hits)
             found == {r \in rows : r.id = h.id}
         IN <<[id |-> h.id,
               document_id |-> h.document_id,
               text |-> IF found = {} THEN <<>>
                        ELSE (CHOOSE r \in found : TRUE).content]>>
            \o Passages_unhydrated(Tail(hits), rows)

\* the passages built from the hits that have a chunk row, in hit order,
\* with the content of the row
RECURSIVE Passages(_, _)
Passages(hits, rows) ==
    IF hits = <<>> THEN <<>>
    ELSE LET h == Head(hits)
             found == {r \in rows : r.id = h.id}
         IN (IF found = {} THEN <<>>
             ELSE <<[id |-> h.id,
                     document_id |-> (CHOOSE r \in found : TRUE).document_id,
                     text |-> (CHOOSE r \in found : TRUE).content]>>)
            \o Passages(Tail(hits), rows)

\* reranker_service.rerank(query, passages, top_k): the cross-encoder's
\* ranking is some order of the passages, cut to top_k
Rerank(ps, top_k) ==
    LET n == Len(ps)
        k == IF n < top_k THEN n ELSE top_k
    IN {[i \in 1..k |-> ps[perm[i]]] :
            perm \in {f \in [1..n -> 1..n] : \A a, b \in 1..n : a # b => f[a] # f[b]}}

\* `top_k=5` of the rerank call
RerankTopK == 5

\* `context_docs = [res["text"] for res in ranked_results]`
ContextDocs(results) == [i \in 1..Len(results) |-> results[i].text]

\* 4) chunk_service.get_chunks_by_ids, the rerank, and the call of
\* llm.generate_response (neither is awaited)
ChatHydrate ==
    /\ chat_pc = "hydrate"
    /\ \/ LET ps == Passages(raw_hits, chunkRows) IN
          IF ps = <<>>
          THEN /\ msgs' = Yield(msgs, Msg("no_content", NoText, FALSE, <<>>, FALSE))
               /\ chat_pc' = "done"
               /\ calls' = Append(calls, Call("get_chunks", "ok"))
               /\ UNCHANGED <<ranked, passages, context_docs>>
          ELSE /\ \E rk \in Rerank(ps, RerankTopK) :
                    /\ ranked' = rk
                    /\ context_docs' = ContextDocs(rk)
               /\ passages' = ps
               /\ chat_pc' = "llm"
               /\ calls' = calls \o <<Call("get_chunks", "ok"), Call("rerank", "ok"),
                                      Call("llm", "ok")>>
               /\ UNCHANGED msgs
       \/ /\ ChatInternalError
          /\ calls' = Append(calls, Call("get_chunks", "raised"))
          /\ UNCHANGED <<ranked, passages, context_docs>>
       \/ /\ Passages(raw_hits, chunkRows) # <<>>
          /\ passages' = Passages(raw_hits, chunkRows)
          /\ ChatInternalError
          /\ calls' = calls \o <<Call("get_chunks", "ok"), Call("rerank", "raised")>>
          /\ UNCHANGED <<ranked, context_docs>>
    /\ UNCHANGED <<req, chatCount, raw_hits, llm_error, full_response, llm_out,
                   docsColl, cacheColl, lastSearch, lastCache, storeCalls, chunkRows>>

\* 6) one chunk of llm.generate_response, relayed to the client
ChatLLMChunk ==
    /\ chat_pc = "llm"
    /\ Len(llm_out) < MaxLLMChunks
    /\ \E k \in ChunkKinds :
        /\ llm_out' = Append(llm_out, k)
        /\ IF ChunkIsError(k)
           THEN llm_error' = TRUE /\ UNCHANGED full_response
           ELSE full_response' = Append(full_response, k) /\ UNCHANGED llm_error
        /\ msgs' = Yield(msgs, Msg(k, NoText, FALSE, <<>>, FALSE))
    /\ UNCHANGED <<req, chatCount, raw_hits, ranked, passages, context_docs, chat_pc, calls,
                   docsColl, cacheColl, lastSearch, lastCache, storeCalls, chunkRows>>

\* the variant without the strip() test
NonBlank_always(body) == TRUE

\* "".join(full_response).strip() is not empty
NonBlank(body) == \E i \in 1..Len(body) : body[i] = "text"

\* the text Chat saves for the call
ResponseText ==
    [from |-> [user_id |-> req.user_id, organization_id |-> req.organization_id,
               group_ids |-> req.group_ids],
     docs |-> {ranked[i].document_id : i \in 1..Len(ranked)}]

\* 7) the LLM stream ends; save_to_cache, awaited, if there was no error and
\* the text is not blank
ChatLLMEnd ==
    /\ chat_pc = "llm"
    /\ IF llm_error
       THEN /\ chat_pc' = "done"
            /\ UNCHANGED <<cacheColl, calls, msgs>>
       ELSE IF NonBlank(full_response)
            THEN \E c \in SaveToCache(cacheColl, req.qv, ResponseText,
                                      ChatCacheOrg(req), req.user_id,
                                      req.group_ids) :
                    /\ cacheColl' = c
                    /\ calls' = Append(calls, Call("save_to_cache",
                                           IF c = cacheColl THEN "raised" ELSE "ok"))
                    /\ IF c = cacheColl /\ CacheErrorEscapes
                       THEN ChatInternalError
                       ELSE chat_pc' = "final" /\ UNCHANGED msgs
            ELSE /\ chat_pc' = "final"
                 /\ UNCHANGED <<cacheColl, calls, msgs>>
    /\ UNCHANGED <<req, chatCount, raw_hits, ranked, passages, context_docs, llm_error, full_response, llm_out,
                   docsColl, lastSearch, lastCache, storeCalls, chunkRows>>

\* the variant that ends the call without the final response
ChatFinal_silent ==
    /\ chat_pc = "final"
    /\ chat_pc' = "done"
    /\ UNCHANGED <<req, chatCount, raw_hits, ranked, passages, context_docs, llm_error, full_response, llm_out,
                   calls, msgs, docsColl, cacheColl, lastSearch, lastCache, storeCalls,
                   chunkRows>>

\* the final response with sources and processing time
ChatFinal ==
    /\ chat_pc = "final"
    /\ msgs' = Yield(msgs, Msg("empty", NoText, FALSE, ranked, TRUE))
    /\ chat_pc' = "done"
    /\ UNCHANGED <<req, chatCount, raw_hits, ranked, passages, context_docs, llm_error, full_response, llm_out,
                   calls, docsColl, cacheColl, lastSearch, lastCache, storeCalls,
                   chunkRows>>

\* the client cancels the stream while the handler is suspended at an await
\* or at a yield: the handler is closed there and runs no further statement
ChatCancel ==
    /\ chat_pc \in {"embed", "cache", "cached_tail", "search", "hydrate", "llm", "final"}
    /\ chat_pc' = "cancelled"
    /\ UNCHANGED <<req, chatCount, raw_hits, ranked, passages, context_docs, llm_error, full_response, llm_out,
                   calls, msgs, docsColl, cacheColl, lastSearch, lastCache, storeCalls,
                   chunkRows>>
(***************************************************************************)
(* The ingestion worker: process_document_task, one Celery task for one    *)
(* document.  An attempt runs the body step by step, then the finally      *)
(* block; Celery runs the next attempt when the body asked for a retry.    *)
(***************************************************************************)
\* `max_retries=3` of the task decorator
MaxRetries == 3

\* the task's arguments
TaskArgs == [document_id |-> 1, organization_id |-> 1, group_id |-> 1, owner_id |-> 1]

\* `maximum_file_size: int = Field(default=50 * 1024 * 1024)`
maximum_file_size == 50 * 1024 * 1024

\* the sizes of the files, in bytes: at the limit and one byte above it
FileSizes == {maximum_file_size, maximum_file_size + 1}

\* the uploaded files: does the filename match ^[\w\-. ]+$, is the extension
\* one of .pdf/.txt/.md, the size in bytes, is the file on disk when the task
\* is enqueued, and how many chunks parsing it yields
TaskFiles ==
    [name_ok : BOOLEAN, ext_ok : BOOLEAN, size : FileSizes, exists : BOOLEAN,
     nchunks : 0..MaxChunks]

\* what the control-plane call does: a reply with success=true, a reply with
\* success=false, a grpc.RpcError (unavailable, deadline exceeded), or any
\* other exception
CallbackOutcomes == {"ok", "rejected", "rpc_error", "exception"}

\* update_document_status_via_grpc: the bool it returns; it catches
\* grpc.RpcError and Exception, so nothing is raised
UpdateStatusViaGrpc(outcome) ==
    [raised |-> FALSE, success |-> (outcome = "ok")]

\* the variant that also rejects a file of exactly the maximum size
ExceedsMaximum_orEqual(size) == size >= maximum_file_size

\* `file_size > max_file_size`
ExceedsMaximum(size) == size > maximum_file_size

\* steps 2 and 3 of the body: the existence check and the size check
FileChecks(f, on_disk) ==
    IF ~on_disk THEN "missing"
    ELSE IF ExceedsMaximum(f.size) THEN "too_large"
    ELSE "ok"

\* final_error_message after a failed check
CheckMessage(check) ==
    IF check = "missing" THEN "File not found" ELSE "File size exceeds maximum"

\* the variant in which a validation error is raised as a plain Exception
ParseFile_validationAsException(f) ==
    IF ~f.name_ok \/ ~f.ext_ok
    THEN {"Exception"}
    ELSE {"chunks", "ValueError", "Exception"}

\* DocumentParser.parse_file: the ways the call can end.  The filename and the
\* extension are validated first (ValueError); then the format parser runs
\* and returns the chunks or re-raises what the engine raised, which may
\* itself be a ValueError (a UnicodeDecodeError of a text file)
ParseFile(f) ==
    IF ~f.name_ok \/ ~f.ext_ok
    THEN {"ValueError"}
    ELSE {"chunks", "ValueError", "Exception"}

\* self.retry(exc=e): a retry is scheduled while request.retries is below
\* max_retries, otherwise the exception is raised for good
RetryDecision(request_retries) ==
    IF request_retries < MaxRetries THEN "retry" ELSE "failure"

\* store_chunks_sync: the rows of one document, with fresh ids, chunk_index
\* 0..n-1, inserted in one transaction
FreshChunkIds(rows, points, n) ==
    LET used == {r.id : r \in rows} \cup {p.id : p \in points}
        base == IF used = {} THEN 0
                ELSE CHOOSE m \in used : \A k \in used : k <= m
    IN [i \in 1..n |-> base + i]

\* the variant whose transaction is not committed
StoreChunks_uncommitted(rows, document_id, ids) == rows

StoreChunks(rows, document_id, ids) ==
    rows \cup {[id |-> ids[i], document_id |-> document_id, chunk_index |-> i - 1] :
                   i \in 1..Len(ids)}

\* the variant that leaves the message empty
NoTextMessage_empty == ""

\* `final_error_message = "No text extracted from document"`
NoTextMessage == "No text extracted from document"

\* the variant that reports only a successful outcome
TerminalNotification_onlyCompleted(status, chunks_count, error_message, att, outcome) ==
    IF status = "COMPLETED"
    THEN <<[status |-> status, chunks_count |-> chunks_count,
            error_message |-> error_message, attempt |-> att,
            success |-> UpdateStatusViaGrpc(outcome).success]>>
    ELSE <<>>

\* the notification the finally block sends
TerminalNotification(status, chunks_count, error_message, att, outcome) ==
    <<[status |-> status, chunks_count |-> chunks_count,
       error_message |-> error_message, attempt |-> att,
       success |-> UpdateStatusViaGrpc(outcome).success]>>

\* the variant in which a failed call propagates
CallbackEscapes_propagates(outcome) == outcome \in {"rpc_error", "exception"}

\* does a failure of the terminal callback leave the finally block as an
\* exception?  update_document_status_via_grpc returns False instead of
\* raising, and the call is wrapped in try/except
CallbackEscapes(outcome) == UpdateStatusViaGrpc(outcome).raised

\* the cleanup of the finally block: is the file on disk afterwards, and does
\* an exception leave the block?  exists() guards unlink(), so a missing file
\* is left alone; the block is wrapped in try/except
CleanupFile(on_disk) == [on_disk |-> FALSE, raised |-> FALSE]

\* the body has ended (return or raise): go to the finally block
TaskToFinally(how) ==
    /\ task_pc' = "finally"
    /\ body_result' = how

\* except Exception: final_error_message = str(e), final_status = ERROR, then
\* raise self.retry(exc=e)
TaskExcept ==
    /\ final_status' = "ERROR"
    /\ final_error_message' = "str(e)"
    /\ TaskToFinally(RetryDecision(retries))

\* Celery starts an attempt; 1) notify PROCESSING, 2) and 3) the file checks
TaskStart ==
    /\ task_pc = "queued"
    /\ attempt' = attempt + 1
    /\ \E o \in CallbackOutcomes :
        notifications' = Append(notifications,
            [status |-> "PROCESSING", chunks_count |-> 0, error_message |-> "",
             attempt |-> attempt + 1, success |-> UpdateStatusViaGrpc(o).success])
    /\ final_chunks_count' = 0
    /\ chunk_ids' = <<>>
    /\ IF FileChecks(file, file_on_disk) = "ok"
       THEN /\ task_pc' = "parse"
            /\ final_status' = "ERROR"
            /\ final_error_message' = ""
            /\ body_result' = "running"
       ELSE \* final_error_message is set and the body returns
            /\ final_status' = "ERROR"
            /\ final_error_message' = CheckMessage(FileChecks(file, file_on_disk))
            /\ TaskToFinally("return")
    /\ UNCHANGED <<file, file_on_disk, retries, upsert_calls, upsert_plan,
                   other_faults, chunkRows, docsColl>>

\* 4) parse the document
TaskParse ==
    /\ task_pc = "parse"
    /\ \E r \in ParseFile(file) :
        CASE r = "ValueError" ->
                \* except ValueError: return, final_status stays ERROR
                /\ TaskToFinally("return")
                /\ final_error_message' = "str(ve)"
                /\ other_faults' = IF file.name_ok /\ file.ext_ok
                                   THEN other_faults + 1 ELSE other_faults
                /\ UNCHANGED <<final_status, final_chunks_count>>
          [] r = "Exception" ->
                /\ TaskExcept
                /\ other_faults' = other_faults + 1
                /\ UNCHANGED final_chunks_count
          [] r = "chunks" ->
                /\ UNCHANGED other_faults
                /\ IF file.nchunks = 0
                   THEN \* no text extracted: COMPLETED with chunks_count 0
                        /\ final_status' = "COMPLETED"
                        /\ final_chunks_count' = 0
                        /\ final_error_message' = NoTextMessage
                        /\ TaskToFinally("return")
                   ELSE /\ task_pc' = "store"
                        /\ UNCHANGED <<final_status, final_chunks_count, body_result,
                                       final_error_message>>
    /\ UNCHANGED <<file, file_on_disk, attempt, retries, notifications, chunk_ids,
                   upsert_calls, upsert_plan, chunkRows, docsColl>>

\* 5) store_chunks_sync: commit, or rollback and raise
TaskStore ==
    /\ task_pc = "store"
    /\ \/ LET ids == FreshChunkIds(chunkRows, docsColl, file.nchunks) IN
          /\ chunkRows' = StoreChunks(chunkRows, TaskArgs.document_id, ids)
          /\ chunk_ids' = ids
          /\ task_pc' = "embed"
          /\ UNCHANGED <<final_status, body_result, other_faults, final_error_message>>
       \/ /\ TaskExcept
          /\ other_faults' = other_faults + 1
          /\ UNCHANGED <<chunkRows, chunk_ids>>
    /\ UNCHANGED <<file, file_on_disk, attempt, retries, notifications,
                   final_chunks_count, upsert_calls, upsert_plan, docsColl>>

\* 6) embedder.generate_sync
TaskEmbed ==
    /\ task_pc = "embed"
    /\ \/ /\ task_pc' = "upsert"
          /\ UNCHANGED <<final_status, body_result, other_faults, final_error_message>>
       \/ /\ TaskExcept
          /\ other_faults' = other_faults + 1
    /\ UNCHANGED <<file, file_on_disk, attempt, retries, notifications, chunk_ids,
                   final_chunks_count, upsert_calls, upsert_plan, chunkRows, docsColl>>

\* 7) qdrant_client.upsert, 8) mark the processing successful.  The engine
\* fails the first upsert_plan calls made to it.
TaskUpsert ==
    /\ task_pc = "upsert"
    /\ upsert_calls' = upsert_calls + 1
    /\ IF upsert_calls < upsert_plan
       THEN /\ TaskExcept
            /\ UNCHANGED <<docsColl, final_chunks_count>>
       ELSE /\ docsColl' = Upsert(docsColl,
                   {DocPoint(chunk_ids[i], TaskArgs.document_id, TaskArgs.organization_id,
                             TaskArgs.group_id, TaskArgs.owner_id) :
                        i \in 1..Len(chunk_ids)})
            /\ final_status' = "COMPLETED"
            /\ final_chunks_count' = Len(chunk_ids)
            /\ final_error_message' = ""
            /\ TaskToFinally("return")
    /\ UNCHANGED <<file, file_on_disk, attempt, retries, notifications, chunk_ids,
                   upsert_plan, other_faults, chunkRows>>

\* finally: notify the control plane of the final status, then clean up the
\* file; then the attempt is over
TaskFinally ==
    /\ task_pc = "finally"
    /\ \E o \in CallbackOutcomes :
        /\ notifications' = notifications \o
               TerminalNotification(final_status, final_chunks_count, final_error_message,
                                    attempt, o)
        /\ IF CallbackEscapes(o)
           THEN \* the exception leaves the finally block: no cleanup
                /\ UNCHANGED <<file_on_disk, retries>>
                /\ task_pc' = "done"
                /\ body_result' = "finally_raised"
           ELSE /\ file_on_disk' = CleanupFile(file_on_disk).on_disk
                /\ IF CleanupFile(file_on_disk).raised
                   THEN /\ task_pc' = "done"
                        /\ body_result' = "finally_raised"
                        /\ UNCHANGED retries
                   ELSE /\ UNCHANGED body_result
                        /\ IF body_result = "retry"
                           THEN task_pc' = "queued" /\ retries' = retries + 1
                           ELSE task_pc' = "done" /\ UNCHANGED retries
    /\ UNCHANGED <<file, attempt, final_status, final_chunks_count, final_error_message,
                   chunk_ids, upsert_calls, upsert_plan, other_faults, chunkRows,
                   docsColl>>


\* the worker process is lost while it runs the task (killed, out of memory):
\* nothing more of the attempt runs, and with task_acks_late and
\* task_reject_on_worker_lost the broker delivers the message again
WorkerLost ==
    /\ task_pc \in {"parse", "store", "embed", "upsert", "finally"}
    /\ lost < MaxLost
    /\ lost' = lost + 1
    /\ task_pc' = "queued"
    /\ body_result' = "lost"
    /\ UNCHANGED <<file, file_on_disk, attempt, retries, final_status,
                   final_chunks_count, final_error_message, chunk_ids, notifications,
                   upsert_calls,
                   upsert_plan, other_faults, chunkRows, docsColl>>
(***************************************************************************)
(* KnowledgeBaseService: UploadDocument and DeleteDocument, each call one  *)
(* step.  documents is the documents table, links the user_documents       *)
(* table; kb_resp is the response of the last call.                        *)
(***************************************************************************)
\* the x-user-id values the calls carry
KbHeaders == {NoHeader, Header(<<"1">>), Header(<<"2">>), Header(<<"x">>)}

\* the request streams of UploadDocument: metadata then chunks; a chunk
\* before the metadata; a second metadata message; no metadata at all
UploadStreams ==
    {"ok", "chunk_before_metadata", "second_metadata", "no_metadata"}

\* the variant that accepts a stream without metadata
StreamError_metadataOptional(st) == st \in {"chunk_before_metadata", "second_metadata"}

\* the stream makes the handler return status error: `if metadata_received`
\* at a metadata message, `if not metadata_received` at a chunk, and `if not
\* metadata_received or not filename` at the end of the stream
StreamError(st) == st \in {"chunk_before_metadata", "second_metadata", "no_metadata"}

\* the byte lengths of the chunks of a stream: no chunk, a file of exactly
\* maximum_file_size in two chunks, and a file one byte larger in one chunk
\* or in two
UploadChunkLens ==
    {<<>>, <<maximum_file_size - 1, 1>>, <<maximum_file_size + 1>>,
     <<maximum_file_size, 1>>}

\* the number of bytes of the stream
RECURSIVE SentBytes(_)
SentBytes(chunk_lens) ==
    IF chunk_lens = <<>> THEN 0 ELSE Head(chunk_lens) + SentBytes(Tail(chunk_lens))

\* the variant that also rejects the chunk that reaches the maximum
ExceedsLimit_orEqual(current_size, chunk_len) ==
    current_size + chunk_len >= maximum_file_size

\* `current_size + chunk_len > self.max_file_size`
ExceedsLimit(current_size, chunk_len) == current_size + chunk_len > maximum_file_size

\* the chunk loop: the size check of every chunk, then `current_size +=
\* chunk_len`; the result tells whether a chunk was refused and gives the
\* current_size reached
RECURSIVE ReceiveChunks(_, _)
ReceiveChunks(chunk_lens, current_size) ==
    IF chunk_lens = <<>> THEN [too_large |-> FALSE, current_size |-> current_size]
    ELSE IF ExceedsLimit(current_size, Head(chunk_lens))
         THEN [too_large |-> TRUE, current_size |-> current_size]
         ELSE ReceiveChunks(Tail(chunk_lens), current_size + Head(chunk_lens))

\* the message of a response, told apart only as the message of the size
\* check or any other message
SizeMessage == "File size exceeds the maximum limit"
OtherMessage == "other"

\* the uploaded files: filename and extension validity, the sha256 of the
\* bytes, and the number of chunks parsing yields
UploadFiles ==
    [name_ok : BOOLEAN, ext_ok : BOOLEAN, file_hash : {1, 2}, nchunks : 0..MaxChunks]

\* the collaborator call that raises during an upload / a delete, if any
UploadFaults == {"none", "register", "store", "embed", "upsert"}
DeleteFaults == {"none", "unlink", "count", "delete", "vectors"}

NoResponse == [op |-> "none", n |-> 0, status |-> "none", document_id |-> None,
               chunks_count |-> 0, message |-> OtherMessage]

\* rs.UploadResponse / rs.DeleteDocumentResponse of call n
KbResponse(op, n, status, document_id, chunks_count, message) ==
    [op |-> op, n |-> n, status |-> status, document_id |-> document_id,
     chunks_count |-> chunks_count, message |-> message]

\* DocumentRepository.link_user_to_document: the row is inserted, or the
\* insert fails (duplicate key, no such user) and is rolled back silently
LinkUser(lnks, u, d, inserted) == IF inserted THEN lnks \cup {<<u, d>>} ELSE lnks

\* the variant that unlinks every user of the document
UnlinkUser_all(lnks, u, d) == {l \in lnks : l[2] # d}

\* DocumentRepository.unlink_user_from_document
UnlinkUser(lnks, u, d) == lnks \ {<<u, d>>}

\* DocumentRepository.get_linked_user_count
LinkedUserCount(lnks, d) == Cardinality({l \in lnks : l[2] = d})

\* the variant that never reports the document as fully deleted
ShouldDeleteVectors_never(lnks, d) == FALSE

\* what delete_document_for_user returns after the unlink: True when no user
\* remains linked
ShouldDeleteVectors(lnks, d) == LinkedUserCount(lnks, d) = 0

\* DocumentRepository.delete
DeleteDocumentRow(docs, d) == {x \in docs : x.id # d}

\* str(uuid.uuid4()) of a new Document: an id no document, row or point has
FreshDocumentId(docs, rows, points) ==
    LET used == {x.id : x \in docs} \cup {r.document_id : r \in rows}
                \cup {p.document_id : p \in points} \cup DocIds
    IN (CHOOSE m \in used : \A k \in used : k <= m) + 1

\* the state and the response after UploadDocument: the stream checks, the
\* parse, get_or_register_document, store_chunks, the embedding and the
\* upsert; an exception at any of them ends the call with status error and
\* leaves what was written before it
UploadOutcome(docs, lnks, rows, points, u, st, lens, f, parsed, fault, inserted) ==
    LET same == [documents |-> docs, links |-> lnks, chunkRows |-> rows,
                 docsColl |-> points, message |-> OtherMessage]
        unchanged(status) ==
            same @@ [status |-> status, document_id |-> None, chunks_count |-> 0]
        received == ReceiveChunks(lens, 0)
        existing == {x \in docs : x.file_hash = f.file_hash}
        new_id == FreshDocumentId(docs, rows, points)
        ids == FreshChunkIds(rows, points, f.nchunks)
        registered == [documents |-> docs \cup {[id |-> new_id, file_hash |-> f.file_hash,
                                                  chunk_count |-> f.nchunks]},
                       links |-> LinkUser(lnks, u, new_id, inserted),
                       message |-> OtherMessage]
        stored == StoreChunks(rows, new_id, ids)
    IN IF u = None THEN unchanged("error")
       ELSE IF StreamError(st) THEN unchanged("error")
       ELSE IF received.too_large
            THEN [unchanged("error") EXCEPT !.message = SizeMessage]
       ELSE IF received.current_size = 0 THEN unchanged("warning")
       ELSE IF parsed # "chunks" THEN unchanged("error")
       ELSE IF f.nchunks = 0 THEN unchanged("warning")
       ELSE IF fault = "register" THEN unchanged("error")
       ELSE IF existing # {}
            THEN LET doc == CHOOSE x \in existing : TRUE IN
                 [documents |-> docs, links |-> LinkUser(lnks, u, doc.id, inserted),
                  chunkRows |-> rows, docsColl |-> points, message |-> OtherMessage,
                  status |-> "success", document_id |-> doc.id,
                  chunks_count |-> doc.chunk_count]
       ELSE IF fault = "store"
            THEN registered @@ [chunkRows |-> rows, docsColl |-> points,
                                status |-> "error", document_id |-> None,
                                chunks_count |-> 0]
       ELSE IF fault \in {"embed", "upsert"}
            THEN registered @@ [chunkRows |-> stored, docsColl |-> points,
                                status |-> "error", document_id |-> None,
                                chunks_count |-> 0]
       ELSE registered @@
            [chunkRows |-> stored,
             docsColl |-> Upsert(points, {DocPoint(ids[i], new_id, None, None, None) :
                                              i \in 1..Len(ids)}),
             status |-> "success", document_id |-> new_id, chunks_count |-> Len(ids)]

\* one UploadDocument call with its inputs fixed
UploadCall(u, st, lens, f, parsed, fault, inserted) ==
    \E out \in {UploadOutcome(documents, links, chunkRows, docsColl, u, st, lens, f,
                               parsed, fault, inserted)} :
       /\ documents' = out.documents
       /\ links' = out.links
       /\ chunkRows' = out.chunkRows
       /\ docsColl' = out.docsColl
       /\ kb_resp' = KbResponse("upload", kbCalls + 1, out.status, out.document_id,
                                out.chunks_count, out.message)
       /\ kb_sent' = SentBytes(lens)
       /\ kb_stream' = st

\* a file the handler does not get to read
PlainFile == [name_ok |-> TRUE, ext_ok |-> TRUE, file_hash |-> 1, nchunks |-> 1]

\* the inputs are chosen as far as the handler reads them
UploadDocument ==
    /\ kbCalls < MaxKbCalls
    /\ kbCalls' = kbCalls + 1
    /\ UNCHANGED <<cacheColl, lastSearch, lastCache, storeCalls, uploads>>
    /\ \E h \in KbHeaders :
        LET u == get_user_id_from_context(h) IN
        IF u = None
        THEN UploadCall(u, "ok", <<>>, PlainFile, "chunks", "none", FALSE)
        ELSE \E st \in UploadStreams :
            IF st # "ok"
            THEN UploadCall(u, st, <<>>, PlainFile, "chunks", "none", FALSE)
            ELSE \E lens \in UploadChunkLens :
                IF ReceiveChunks(lens, 0).too_large \/ lens = <<>>
                THEN UploadCall(u, st, lens, PlainFile, "chunks", "none", FALSE)
                ELSE \E name_ok \in BOOLEAN, ext_ok \in BOOLEAN :
                    IF ~name_ok \/ ~ext_ok
                    THEN LET f == [PlainFile EXCEPT !.name_ok = name_ok,
                                                    !.ext_ok = ext_ok]
                         IN \E parsed \in ParseFile(f) :
                                UploadCall(u, st, lens, f, parsed, "none", FALSE)
                    ELSE \E f \in {x \in UploadFiles : x.name_ok /\ x.ext_ok} :
                         \E parsed \in ParseFile(f) :
                            IF parsed # "chunks" \/ f.nchunks = 0
                            THEN UploadCall(u, st, lens, f, parsed, "none", FALSE)
                            ELSE \E fault \in UploadFaults, inserted \in BOOLEAN :
                                    UploadCall(u, st, lens, f, parsed, fault, inserted)

\* the state and the response after DeleteDocument: delete_document_for_user
\* (unlink, count, delete the row when no user remains), then
\* delete_by_document_id when it returned True
DeleteOutcome(docs, lnks, points, u, d, fault) ==
    LET unlinked == UnlinkUser(lnks, u, d)
        full == ShouldDeleteVectors(unlinked, d)
        result(status, ds, ls, ps) ==
            [status |-> status, documents |-> ds, links |-> ls, docsColl |-> ps]
    IN IF u = None THEN result("error", docs, lnks, points)
       ELSE IF fault = "unlink" THEN result("error", docs, lnks, points)
       ELSE IF fault = "count" THEN result("error", docs, unlinked, points)
       ELSE IF ~full THEN result("success", docs, unlinked, points)
       ELSE IF fault = "delete" THEN result("error", docs, unlinked, points)
       ELSE IF fault = "vectors"
            THEN result("error", DeleteDocumentRow(docs, d), unlinked, points)
       ELSE result("success", DeleteDocumentRow(docs, d), unlinked,
                   DeleteByDocument(points, d))

\* one DeleteDocument call with its inputs fixed
DeleteCall(u, d, fault) ==
    \E out \in {DeleteOutcome(documents, links, docsColl, u, d, fault)} :
       /\ documents' = out.documents
       /\ links' = out.links
       /\ docsColl' = out.docsColl
       /\ kb_resp' = KbResponse("delete", kbCalls + 1, out.status, d, 0, OtherMessage)
       /\ kb_sent' = 0
       /\ kb_stream' = "unary"

DeleteDocument ==
    /\ kbCalls < MaxKbCalls
    /\ \E h \in KbHeaders, d \in DocIds \cup {x.id : x \in documents} :
        LET u == get_user_id_from_context(h) IN
        IF u = None
        THEN DeleteCall(u, d, "none")
        ELSE \E fault \in DeleteFaults : DeleteCall(u, d, fault)
    /\ kbCalls' = kbCalls + 1
    /\ UNCHANGED <<chunkRows, cacheColl, lastSearch, lastCache, storeCalls, uploads>>

(***************************************************************************)
(* UploadDocument calls that run concurrently, one per user.  Each await   *)
(* of the handler after the parse is one step: get_by_hash, create,        *)
(* link_user_to_document, store_chunks, and the embedding with the upsert. *)
(***************************************************************************)
\* the sha256 of the uploaded bytes
FileHashes == {1, 2}

IdleUpload == [pc |-> "idle", file_hash |-> 1, nchunks |-> 1, document_id |-> None,
               status |-> "none"]

NoUploads == [u \in Users |-> IdleUpload]

\* the stream has been received and parsed into chunks
UploadBegin(u) ==
    /\ uploads[u].pc = "idle"
    /\ \E h \in FileHashes, n \in 1..MaxChunks :
        uploads' = [uploads EXCEPT ![u] = [pc |-> "get_by_hash", file_hash |-> h,
                                           nchunks |-> n, document_id |-> None,
                                           status |-> "none"]]
    /\ UNCHANGED <<documents, links, chunkRows, docsColl>>

\* `existing_doc = await self.repo.get_by_hash(file_hash)`
UploadGetByHash(u) ==
    /\ uploads[u].pc = "get_by_hash"
    /\ LET existing == {x \in documents : x.file_hash = uploads[u].file_hash} IN
       uploads' = IF existing = {}
                  THEN [uploads EXCEPT ![u].pc = "create"]
                  ELSE [uploads EXCEPT ![u].pc = "link_existing",
                                       ![u].document_id = (CHOOSE x \in existing : TRUE).id]
    /\ UNCHANGED <<documents, links, chunkRows, docsColl>>

\* `doc = await self.repo.create(new_doc)`: file_hash is a unique column, so
\* the commit raises when a row with the hash exists by now, and the handler
\* returns status error
UploadCreate(u) ==
    /\ uploads[u].pc = "create"
    /\ IF \E x \in documents : x.file_hash = uploads[u].file_hash
       THEN /\ uploads' = [uploads EXCEPT ![u].pc = "done", ![u].status = "error"]
            /\ UNCHANGED documents
       ELSE LET new_id == FreshDocumentId(documents, chunkRows, docsColl) IN
            /\ documents' = documents \cup {[id |-> new_id,
                                             file_hash |-> uploads[u].file_hash,
                                             chunk_count |-> uploads[u].nchunks]}
            /\ uploads' = [uploads EXCEPT ![u].pc = "link_new",
                                          ![u].document_id = new_id]
    /\ UNCHANGED <<links, chunkRows, docsColl>>

\* `await self.repo.link_user_to_document(user_id, str(doc.id))`; for an
\* existing document the handler then returns status success
UploadLink(u) ==
    /\ uploads[u].pc \in {"link_existing", "link_new"}
    /\ links' = LinkUser(links, u, uploads[u].document_id, TRUE)
    /\ uploads' = IF uploads[u].pc = "link_existing"
                  THEN [uploads EXCEPT ![u].pc = "done", ![u].status = "success"]
                  ELSE [uploads EXCEPT ![u].pc = "store_chunks"]
    /\ UNCHANGED <<documents, chunkRows, docsColl>>

\* `stored_chunks = await self.document_service.store_chunks(...)`
UploadStoreChunks(u) ==
    /\ uploads[u].pc = "store_chunks"
    /\ chunkRows' = StoreChunks(chunkRows, uploads[u].document_id,
                                FreshChunkIds(chunkRows, docsColl, uploads[u].nchunks))
    /\ uploads' = [uploads EXCEPT ![u].pc = "upsert"]
    /\ UNCHANGED <<documents, links, docsColl>>

\* the embedding and upsert_vectors_with_chunk_ids, then status success
UploadUpsert(u) ==
    /\ uploads[u].pc = "upsert"
    /\ docsColl' = Upsert(docsColl,
                          {DocPoint(r.id, r.document_id, None, None, None) :
                               r \in {x \in chunkRows :
                                          x.document_id = uploads[u].document_id}})
    /\ uploads' = [uploads EXCEPT ![u].pc = "done", ![u].status = "success"]
    /\ UNCHANGED <<documents, links, chunkRows>>
(***************************************************************************)
(* TokenCounter: the context budget                                        *)
(***************************************************************************)
\* a text, as the sequence of its tokens
Words(n) == [i \in 1..n |-> "w"]

\* count_tokens: no tokens for an empty text, else the length of the encoding
count_tokens(text) == IF text = <<>> THEN 0 ELSE Len(text)

\* `formatting_overhead = 50`
FormattingOverhead == 50

\* the sum of the token counts of the `content` of the messages
RECURSIVE HistoryTokens(_)
HistoryTokens(history) ==
    IF history = <<>> THEN 0
    ELSE count_tokens(Head(history).content) + HistoryTokens(Tail(history))

\* available_tokens
AvailableTokens(max_context_tokens, reserve_output_tokens, system_prompt, query, history) ==
    max_context_tokens - count_tokens(system_prompt) - count_tokens(query)
        - HistoryTokens(history) - reserve_output_tokens - FormattingOverhead

\* the variant that takes every document
Fits_always(used_tokens, tokens, available_tokens) == TRUE

\* `used_tokens + tokens <= available_tokens`
Fits(used_tokens, tokens, available_tokens) == used_tokens + tokens <= available_tokens

\* the greedy loop over doc_tokens, from document i on
RECURSIVE SelectDocs(_, _, _, _)
SelectDocs(docs, i, used_tokens, available_tokens) ==
    IF i > Len(docs)
    THEN [selected_docs |-> <<>>, was_truncated |-> FALSE]
    ELSE LET tokens == count_tokens(docs[i].text) IN
         IF Fits(used_tokens, tokens, available_tokens)
         THEN LET rest == SelectDocs(docs, i + 1, used_tokens + tokens, available_tokens)
              IN [rest EXCEPT !.selected_docs = <<docs[i]>> \o @]
         ELSE \* was_truncated = True; continue with the documents that follow
              LET rest == SelectDocs(docs, i + 1, used_tokens, available_tokens)
              IN [rest EXCEPT !.was_truncated = TRUE]

\* the variant that does not report the truncation when nothing is available
NothingAvailable_unreported == [selected_docs |-> <<>>, was_truncated |-> FALSE]

\* `return [], True` when available_tokens <= 0
NothingAvailable == [selected_docs |-> <<>>, was_truncated |-> TRUE]

\* truncate_context_docs(system_prompt, query, context_docs, history), for
\* the settings max_context_tokens and reserve_output_tokens
truncate_context_docs(a) ==
    IF a.context_docs = <<>>
    THEN [selected_docs |-> <<>>, was_truncated |-> FALSE]
    ELSE LET available_tokens ==
                 AvailableTokens(a.max_context_tokens, a.reserve_output_tokens,
                                 a.system_prompt, a.query, a.history)
         IN IF available_tokens <= 0
            THEN NothingAvailable
            ELSE SelectDocs(a.context_docs, 1, 0, available_tokens)

\* the documents of a call: dicts with a text, told apart by their rank in
\* the input list
ContextDocLists ==
    UNION {{[i \in 1..n |-> [rank |-> i, text |-> Words(t[i])]] :
                t \in [1..n -> 0..MaxDocTokens]} : n \in 0..MaxDocs}

\* the settings max_context_tokens and reserve_output_tokens of the model
ContextLimits == {FormattingOverhead + 1, FormattingOverhead + 3}
OutputReserves == {0, 1}

\* the settings and arguments of a call
TruncateArgs ==
    [max_context_tokens : ContextLimits,
     reserve_output_tokens : OutputReserves,
     system_prompt : {Words(0), Words(1)},
     query : {Words(1)},
     history : {<<>>, <<[role |-> "user", content |-> Words(1)]>>},
     context_docs : ContextDocLists]

NoArgs ==
    [max_context_tokens |-> FormattingOverhead, reserve_output_tokens |-> 0,
     system_prompt |-> <<>>, query |-> <<>>, history |-> <<>>, context_docs |-> <<>>]

NoResult == [selected_docs |-> <<>>, was_truncated |-> FALSE, returned |-> FALSE]

InitTcVars == tc_args \in TruncateArgs /\ tc_result = NoResult

\* one call of truncate_context_docs
TruncateContextDocs ==
    /\ ~tc_result.returned
    /\ tc_result' = truncate_context_docs(tc_args) @@ [returned |-> TRUE]
    /\ UNCHANGED tc_args

(***************************************************************************)
(* Specifications                                                          *)
(***************************************************************************)
\* the subsystems at rest
IdleLLM ==
    /\ provider = "openai" /\ vendor = <<>> /\ pos = 0 /\ bufLo = 1
    /\ is_thinking = FALSE /\ outPos = <<>> /\ errChunks = 0 /\ vendor_raised = FALSE
    /\ llm_pc = "done"

IdleStore ==
    /\ docsColl = {} /\ cacheColl = {}
    /\ lastSearch = NoCall /\ lastCache = NoCall /\ storeCalls = 0

IdleDb == chunkRows = {}

NoRequest == [x_user_id |-> NoHeader, user_id |-> None, organization_id |-> None, group_ids |-> {}, qv |-> 1]

IdleChat ==
    /\ chat_pc = "idle" /\ req = NoRequest /\ msgs = <<>> /\ raw_hits = <<>>
    /\ ranked = <<>> /\ passages = <<>> /\ context_docs = <<>>
    /\ llm_error = FALSE /\ full_response = <<>> /\ chatCount = 0
    /\ calls = <<>> /\ llm_out = <<>>

NoFile == [name_ok |-> TRUE, ext_ok |-> TRUE, size |-> maximum_file_size,
           exists |-> FALSE,
           nchunks |-> 0]

IdleTask ==
    /\ task_pc = "done" /\ file = NoFile /\ file_on_disk = FALSE /\ attempt = 0
    /\ retries = 0 /\ final_status = "ERROR" /\ final_chunks_count = 0
    /\ final_error_message = ""
    /\ chunk_ids = <<>> /\ body_result = "return" /\ notifications = <<>>
    /\ upsert_calls = 0 /\ upsert_plan = 0 /\ other_faults = 0 /\ lost = 0

IdleKb ==
    /\ documents = {} /\ links = {} /\ kb_resp = NoResponse /\ kb_sent = 0
    /\ kb_stream = "unary" /\ uploads = NoUploads
    /\ kbCalls = 0

IdleBudget == tc_args = NoArgs /\ tc_result = NoResult

\* generate_response on every vendor output and every chunking of it
InitLLM == InitLLMVars /\ IdleStore /\ IdleDb /\ IdleChat /\ IdleTask /\ IdleKb /\ IdleBudget

NextLLM ==
    \/ (ScrubChunk /\ UNCHANGED <<tcVars, storeVars, dbVars, chatVars, taskVars, kbVars>>)
    \/ (GeminiChunk /\ UNCHANGED <<tcVars, storeVars, dbVars, chatVars, taskVars, kbVars>>)
    \/ (StreamEnd /\ UNCHANGED <<tcVars, storeVars, dbVars, chatVars, taskVars, kbVars>>)
    \/ (StreamRaise /\ UNCHANGED <<tcVars, storeVars, dbVars, chatVars, taskVars, kbVars>>)

SpecLLM == InitLLM /\ [][NextLLM]_vars

\* the docs collection under arbitrary calls of the VectorStore methods
InitDocs == IdleLLM /\ IdleStore /\ IdleDb /\ IdleChat /\ IdleTask /\ IdleKb /\ IdleBudget

NextDocs ==
    \/ (upsert_vectors_with_metadata /\ UNCHANGED <<tcVars, llmVars, dbVars, chatVars, taskVars, kbVars>>)
    \/ (upsert_vectors_with_chunk_ids /\ UNCHANGED <<tcVars, llmVars, dbVars, chatVars, taskVars, kbVars>>)
    \/ (delete_by_document_id /\ UNCHANGED <<tcVars, llmVars, dbVars, chatVars, taskVars, kbVars>>)
    \/ (search_with_tenant_filter /\ UNCHANGED <<tcVars, llmVars, dbVars, chatVars, taskVars, kbVars>>)

SpecDocs == InitDocs /\ [][NextDocs]_vars

\* the cache collection under arbitrary calls of save_to_cache / search_cache
InitCache == IdleLLM /\ IdleStore /\ IdleDb /\ IdleChat /\ IdleTask /\ IdleKb /\ IdleBudget

NextCache ==
    \/ (save_to_cache /\ UNCHANGED <<tcVars, llmVars, dbVars, chatVars, taskVars, kbVars>>)
    \/ (search_cache /\ UNCHANGED <<tcVars, llmVars, dbVars, chatVars, taskVars, kbVars>>)

SpecCache == InitCache /\ [][NextCache]_vars

\* a sequence of Chat calls against the seeded documents
InitChat ==
    /\ IdleLLM /\ IdleChat /\ IdleTask /\ IdleKb /\ IdleBudget
    /\ docsColl = SeedPoints /\ chunkRows = SeedRows /\ cacheColl = {}
    /\ lastSearch = NoCall /\ lastCache = NoCall /\ storeCalls = 0

NextChat ==
    \/ (ChatStart /\ UNCHANGED <<tcVars, llmVars, taskVars, kbVars>>)
    \/ (ChatEmbed /\ UNCHANGED <<tcVars, llmVars, taskVars, kbVars>>)
    \/ (ChatCacheLookup /\ UNCHANGED <<tcVars, llmVars, taskVars, kbVars>>)
    \/ (ChatCachedTail /\ UNCHANGED <<tcVars, llmVars, taskVars, kbVars>>)
    \/ (ChatSearch /\ UNCHANGED <<tcVars, llmVars, taskVars, kbVars>>)
    \/ (ChatHydrate /\ UNCHANGED <<tcVars, llmVars, taskVars, kbVars>>)
    \/ (ChatLLMChunk /\ UNCHANGED <<tcVars, llmVars, taskVars, kbVars>>)
    \/ (ChatLLMEnd /\ UNCHANGED <<tcVars, llmVars, taskVars, kbVars>>)
    \/ (ChatFinal /\ UNCHANGED <<tcVars, llmVars, taskVars, kbVars>>)
    \/ (ChatCancel /\ UNCHANGED <<tcVars, llmVars, taskVars, kbVars>>)

SpecChat == InitChat /\ [][NextChat]_vars

\* one ingestion task, from its first attempt to its last
InitTask ==
    /\ IdleLLM /\ IdleStore /\ IdleDb /\ IdleChat /\ IdleKb /\ IdleBudget
    /\ task_pc = "queued"
    /\ file \in TaskFiles
    /\ file_on_disk = file.exists
    /\ attempt = 0 /\ retries = 0
    /\ final_status = "ERROR" /\ final_chunks_count = 0
    /\ final_error_message = ""
    /\ chunk_ids = <<>> /\ body_result = "return" /\ notifications = <<>>
    /\ upsert_calls = 0 /\ upsert_plan \in 0..MaxUpsertFaults /\ other_faults = 0
    /\ lost = 0

NextTask ==
    \/ (TaskStart /\ UNCHANGED <<tcVars, llmVars, chatVars, kbVars, cacheColl, lastSearch, lastCache, storeCalls, lost>>)
    \/ (TaskParse /\ UNCHANGED <<tcVars, llmVars, chatVars, kbVars, cacheColl, lastSearch, lastCache, storeCalls, lost>>)
    \/ (TaskStore /\ UNCHANGED <<tcVars, llmVars, chatVars, kbVars, cacheColl, lastSearch, lastCache, storeCalls, lost>>)
    \/ (TaskEmbed /\ UNCHANGED <<tcVars, llmVars, chatVars, kbVars, cacheColl, lastSearch, lastCache, storeCalls, lost>>)
    \/ (TaskUpsert /\ UNCHANGED <<tcVars, llmVars, chatVars, kbVars, cacheColl, lastSearch, lastCache, storeCalls, lost>>)
    \/ (TaskFinally /\ UNCHANGED <<tcVars, llmVars, chatVars, kbVars, cacheColl, lastSearch, lastCache, storeCalls, lost>>)

SpecTask == InitTask /\ [][NextTask]_vars


\* one ingestion task whose worker process may be lost, the message then
\* being delivered again
NextIngest ==
    \/ NextTask
    \/ (WorkerLost /\ UNCHANGED <<tcVars, llmVars, chatVars, kbVars, cacheColl, lastSearch,
                                   lastCache, storeCalls>>)

SpecIngest == InitTask /\ [][NextIngest]_vars

\* a sequence of UploadDocument and DeleteDocument calls
InitKb == IdleLLM /\ IdleStore /\ IdleDb /\ IdleChat /\ IdleTask /\ IdleKb /\ IdleBudget

NextKb ==
    \/ (UploadDocument /\ UNCHANGED <<tcVars, llmVars, chatVars, taskVars>>)
    \/ (DeleteDocument /\ UNCHANGED <<tcVars, llmVars, chatVars, taskVars>>)

SpecKb == InitKb /\ [][NextKb]_vars

\* one call of truncate_context_docs, on every list of documents and budget
InitBudget ==
    /\ IdleLLM /\ IdleStore /\ IdleDb /\ IdleChat /\ IdleTask /\ IdleKb
    /\ InitTcVars

NextBudget ==
    TruncateContextDocs /\ UNCHANGED <<llmVars, storeVars, dbVars, chatVars, taskVars, kbVars>>

SpecBudget == InitBudget /\ [][NextBudget]_vars

\* the two size checks: one UploadDocument call, then one ingestion task
InitSize == InitTask

NextSize ==
    \/ NextTask
    \/ (kbCalls = 0 /\ attempt = 0 /\ UploadDocument
            /\ UNCHANGED <<tcVars, llmVars, chatVars, taskVars>>)

SpecSize == InitSize /\ [][NextSize]_vars

\* Chat calls against the seeded documents, with one DeleteDocument call
\* between two of them; the documents table and the links of the seeded
\* documents
SeedDocuments ==
    {[id |-> 1, file_hash |-> 1, chunk_count |-> 1],
     [id |-> 2, file_hash |-> 2, chunk_count |-> 2]}

SeedLinks == {<<1, 1>>, <<2, 2>>}

InitForget ==
    /\ IdleLLM /\ IdleChat /\ IdleTask /\ IdleBudget
    /\ docsColl = SeedPoints /\ chunkRows = SeedRows /\ cacheColl = {}
    /\ lastSearch = NoCall /\ lastCache = NoCall /\ storeCalls = 0
    /\ documents = SeedDocuments /\ links = SeedLinks
    /\ kb_resp = NoResponse /\ kb_sent = 0 /\ kb_stream = "unary" /\ kbCalls = 0
    /\ uploads = NoUploads

NextForget ==
    \/ NextChat
    \/ (kbCalls = 0 /\ chat_pc = "done" /\ DeleteDocument
            /\ UNCHANGED <<tcVars, llmVars, chatVars, taskVars>>)

SpecForget == InitForget /\ [][NextForget]_vars

\* the Chat calls under a fair event loop: a handler that can take a step
\* (its awaited collaborator call has returned or raised) takes it
ChatStep ==
    /\ \/ ChatEmbed \/ ChatCacheLookup \/ ChatCachedTail \/ ChatSearch
       \/ ChatHydrate \/ ChatLLMChunk \/ ChatLLMEnd \/ ChatFinal
    /\ UNCHANGED <<tcVars, llmVars, taskVars, kbVars>>

\* the cache before the call: empty, or holding the answer an earlier call of
\* user 1 saved
SeedCaches ==
    {{}, {CacheEntry(1, 1, [from |-> [user_id |-> 1, organization_id |-> None,
                                      group_ids |-> {}],
                            docs |-> {1}], None, 1, {})}}

InitChatLive ==
    /\ IdleLLM /\ IdleChat /\ IdleTask /\ IdleKb /\ IdleBudget
    /\ docsColl = SeedPoints /\ chunkRows = SeedRows /\ cacheColl \in SeedCaches
    /\ lastSearch = NoCall /\ lastCache = NoCall /\ storeCalls = 0

\* one call, from its start to its end
NextChatLive ==
    \/ (chatCount = 0 /\ ChatStart /\ UNCHANGED <<tcVars, llmVars, taskVars, kbVars>>)
    \/ ChatStep
    \/ (ChatCancel /\ UNCHANGED <<tcVars, llmVars, taskVars, kbVars>>)

SpecChatLive == InitChatLive /\ [][NextChatLive]_vars /\ WF_vars(ChatStep)

\* two users upload at the same time
InitRace == InitKb

\* what no step of an upload changes
RaceFrame ==
    UNCHANGED <<tcVars, llmVars, chatVars, taskVars, cacheColl, lastSearch,
                lastCache, storeCalls, kb_resp, kb_sent, kb_stream, kbCalls>>

NextRace ==
    \/ ((\E u \in Users : UploadBegin(u)) /\ RaceFrame)
    \/ ((\E u \in Users : UploadGetByHash(u)) /\ RaceFrame)
    \/ ((\E u \in Users : UploadCreate(u)) /\ RaceFrame)
    \/ ((\E u \in Users : UploadLink(u)) /\ RaceFrame)
    \/ ((\E u \in Users : UploadStoreChunks(u)) /\ RaceFrame)
    \/ ((\E u \in Users : UploadUpsert(u)) /\ RaceFrame)

SpecRace == InitRace /\ [][NextRace]_vars
(***************************************************************************)
(* Thinking regions of a vendor output: the positions strictly between a   *)
(* start tag and its closing tag (the first closing tag of the same name   *)
(* after the start tag).                                                   *)
(***************************************************************************)
ClosingOf(n) == END_TAGS[n]

InThinkingRegion(s, p) ==
    \E n \in 1..Len(START_TAGS) :
        \E i \in 1..Len(s) :
            /\ TagAt(s, i, START_TAGS[n])
            /\ i + Len(START_TAGS[n]) - 1 < p
            /\ \E k \in (p+1)..Len(s) : TagAt(s, k, ClosingOf(n))
            /\ \A k \in (i + Len(START_TAGS[n]))..p : ~TagAt(s, k, ClosingOf(n))

\* C1: for every backend and every chunking of the vendor output, no emitted
\* chunk contains text lying between a <think>/<thinking> start tag and its
\* closing tag.
C1_NoThinkingTextEmitted ==
    \A i \in 1..Len(outPos) : ~InThinkingRegion(vendor, outPos[i])


(***************************************************************************)
(* Tenant filter of the document search                                    *)
(***************************************************************************)
\* the active tenant filter of a search call, as a predicate on a point
TenantAdmits(call, p) ==
    IF call.group_ids # {}
    THEN p.group_id # None /\ p.group_id \in call.group_ids
    ELSE call.user_id # None /\ p.owner_id # None /\ p.owner_id = call.user_id

ResultSet(points) == {points[i] : i \in 1..Len(points)}

ScopeAdmits(call, e) ==
    /\ call.organization_id # None => e.organization_id = call.organization_id
    /\ IF call.group_ids # {}
       THEN e.group_ids \cap call.group_ids # {}
       ELSE call.user_id # None /\ e.user_id = call.user_id

UserOnlyEntry(e) ==
    e.user_id # None /\ e.group_ids = {} /\ e.organization_id = None

\* C3: every hit of search_cache is a stored entry whose payload satisfies the
\* search scope; an entry saved with only user_id = U is never returned to a
\* search made for another user, even for an identical query vector.
C3_CacheHitRespectsScope ==
    lastCache.op = "search_cache" =>
        \A e \in ResultSet(lastCache.res.hits) :
            /\ e \in cacheColl
            /\ ScopeAdmits(lastCache, e)
            /\ UserOnlyEntry(e) => lastCache.user_id = e.user_id

\* a user-scope hit for the saving user, with the identical vector, while
\* the cache holds that user-only entry
C3_Witness ==
    /\ lastCache.op = "search_cache"
    /\ lastCache.res.hits # <<>>
    /\ UserOnlyEntry(lastCache.res.hits[1])
    /\ lastCache.qv = lastCache.res.hits[1].vec
    /\ lastCache.group_ids = {}

(***************************************************************************)
(* Cache scopes of Chat                                                    *)
(***************************************************************************)
\* the cached answers the call in flight has served
CachedServed == {msgs[i].text : i \in {j \in 1..Len(msgs) : msgs[j].kind = "cached"}}

\* C4: an answer cached while serving a Chat call that carried one
\* x-organization-id is never served as a cache hit to a call that carries a
\* different x-organization-id.
C4_CacheHitSameOrganization ==
    \A t \in CachedServed :
        (t.from.organization_id # None /\ req.organization_id # None) =>
            t.from.organization_id = req.organization_id

\* C5: a cache entry written by a Chat call that carried non-empty group_ids
\* is never served to a call that carries only a user id.
C5_GroupEntryNotServedToUserScope ==
    \A t \in CachedServed :
        req.group_ids = {} => t.from.group_ids = {}

(***************************************************************************)
(* The ingestion worker                                                    *)
(***************************************************************************)
TerminalStatuses == {"COMPLETED", "ERROR"}

\* the terminal notifications sent by attempt a
TerminalOf(a) ==
    {i \in 1..Len(notifications) :
        notifications[i].attempt = a /\ notifications[i].status \in TerminalStatuses}

\* the body of the current attempt has not handed over to the finally block's
\* notification yet
InBody == task_pc \in {"parse", "store", "embed", "upsert", "finally"}

\* an attempt has run and is over
AttemptOver == attempt >= 1 /\ task_pc \in {"queued", "done"}

LastNotification == notifications[Len(notifications)]

\* C6: every attempt of process_document_task that started sends exactly one
\* terminal notification (COMPLETED or ERROR), and not before its body has
\* finished - whether the body returned or asked for a retry.
C6_OneTerminalNotificationPerAttempt ==
    \A a \in 1..attempt :
        Cardinality(TerminalOf(a)) = (IF a = attempt /\ InBody THEN 0 ELSE 1)

\* an attempt that failed in the body and asked for a retry is over
C6_Witness ==
    /\ task_pc = "queued" /\ attempt = 1 /\ body_result = "retry"
    /\ Cardinality(TerminalOf(1)) = 1

\* a file that passes every check and yields chunks
GoodFile == file.name_ok /\ file.ext_ok /\ file.size <= maximum_file_size /\ file.exists /\ file.nchunks > 0

\* C7: if the vector engine fails the upserts of the first two attempts and
\* nothing else fails, the task ends with a final callback COMPLETED whose
\* chunks_count is the number of parsed chunks, and the file is deleted.
C7_RetryThenCompleted ==
    (task_pc = "done" /\ GoodFile /\ upsert_plan = 2 /\ other_faults = 0) =>
        /\ LastNotification.status = "COMPLETED"
        /\ LastNotification.chunks_count = file.nchunks
        /\ ~file_on_disk

\* the filename fails the pattern, the extension is unsupported, the file is
\* too large, or the file is missing
InvalidFile == ~file.name_ok \/ ~file.ext_ok \/ file.size > maximum_file_size \/ ~file.exists

C10_EveryChunkRowHasOnePoint ==
    AttemptOver =>
        \A r \in chunkRows : Cardinality({p \in docsColl : p.id = r.id}) = 1

(***************************************************************************)
(* The Chat stream                                                         *)
(***************************************************************************)
\* the collaborators the call in flight has invoked
Invoked == {calls[i].svc : i \in 1..Len(calls)}

\* the indices of the calls of one collaborator
CallsOf(svc) == {i \in 1..Len(calls) : calls[i].svc = svc}

\* the kinds of the messages sent so far
MsgKinds == {msgs[i].kind : i \in 1..Len(msgs)}

\* the messages that relay an LLM chunk, in the order sent
RECURSIVE Relayed(_)
Relayed(ms) ==
    IF ms = <<>> THEN <<>>
    ELSE (IF Head(ms).kind \in ChunkKinds THEN <<Head(ms).kind>> ELSE <<>>)
         \o Relayed(Tail(ms))

\* a message that carries source documents and the elapsed time
IsSourcesMsg(m) == m.timed /\ ~m.is_cached

CacheHit == \E i \in CallsOf("search_cache") : calls[i].outcome = "hit"

\* C14: on a cache hit Chat emits exactly two messages, the cached text
\* (is_cached, processing time 0) and then an empty answer (is_cached, with the
\* elapsed time), neither with source documents, and it invokes no vector
\* search, chunk fetch, rerank or LLM for the call.
C14_CacheHitTwoMessages ==
    (chat_pc = "done" /\ CacheHit) =>
        /\ Len(msgs) = 2
        /\ msgs[1].kind = "cached" /\ msgs[1].is_cached /\ ~msgs[1].timed
        /\ msgs[1].text # NoText /\ msgs[1].sources = <<>>
        /\ msgs[2].kind = "empty" /\ msgs[2].is_cached /\ msgs[2].timed
        /\ msgs[2].sources = <<>>
        /\ Invoked = {"embed", "search_cache"}

C14_Witness ==
    /\ chat_pc = "done" /\ CacheHit /\ Len(msgs) = 2
    /\ msgs[1].kind = "cached" /\ msgs[1].text.docs # {}

\* C15: save_to_cache is invoked at most once per Chat call, and only after
\* the LLM stream ran to its end with no chunk flagged as an error and a
\* non-blank joined text; never on the unauthorized, cache-hit, no-documents,
\* no-content or exception paths.
C15_SaveOnlyAfterSuccessfulStream ==
    /\ Cardinality(CallsOf("save_to_cache")) <= 1
    /\ CallsOf("save_to_cache") # {} =>
        /\ chat_pc \in {"final", "done", "cancelled"}
        /\ ~llm_error
        /\ \E i \in 1..Len(full_response) : full_response[i] = "text"
        /\ \A i \in 1..Len(llm_out) : llm_out[i] # "error"
        /\ ~CacheHit
        /\ MsgKinds \cap {"unauthorized", "cached", "no_documents", "no_content",
                          "internal_error"} = {}

C15_Witness ==
    /\ chat_pc = "done" /\ CallsOf("save_to_cache") # {}
    /\ llm_out = <<"blank", "text">>

\* C16: an engine error during search_cache is a miss, after which Chat goes
\* on to the tenant-filtered document search; an engine error during
\* save_to_cache is a no-op, after which Chat still sends its final message
\* with the sources.
SearchCacheRaised == \E i \in CallsOf("search_cache") : calls[i].outcome = "raised"
SaveRaised == \E i \in CallsOf("save_to_cache") : calls[i].outcome = "raised"

C16_CacheErrorsDoNotStopChat ==
    /\ SearchCacheRaised =>
        /\ "cached" \notin MsgKinds
        /\ chat_pc \in {"search", "cancelled"} \/ "search" \in Invoked
        /\ \A i \in CallsOf("search_cache") :
              i = Len(calls) \/ calls[i + 1].svc = "search"
    /\ SaveRaised =>
        /\ "internal_error" \notin MsgKinds
        /\ chat_pc \in {"final", "done", "cancelled"}
        /\ chat_pc = "done" =>
              (IsSourcesMsg(msgs[Len(msgs)]) /\ msgs[Len(msgs)].sources = ranked)

C16_Witness ==
    /\ chat_pc = "done" /\ SearchCacheRaised /\ SaveRaised
    /\ "search" \in Invoked /\ IsSourcesMsg(msgs[Len(msgs)])

\* C17: on the cache-miss path the answer messages carry the LLM client's
\* chunks in the order the client produced them, and a message with source
\* documents and timing, if sent, is the last message of the stream.
C17_ChunksInOrderSourcesLast ==
    ~CacheHit =>
        /\ Relayed(msgs) = llm_out
        /\ \A i \in 1..Len(msgs) : IsSourcesMsg(msgs[i]) => i = Len(msgs)

C17_Witness ==
    /\ chat_pc = "done" /\ llm_out = <<"text", "blank">>
    /\ Len(msgs) = 3 /\ IsSourcesMsg(msgs[3])

\* C18: the cache save is not committed before the stream completes: when the
\* client has cancelled the stream at a suspension point up to and including
\* the emission of the terminal message, no cache entry of the call exists.
C18_NoCacheEntryOnCancel ==
    chat_pc = "cancelled" =>
        \A i \in CallsOf("save_to_cache") : calls[i].outcome # "ok"

\* a decimal integer: an optional sign and digits
DecimalInteger(s) ==
    /\ Unsigned(s) # <<>>
    /\ \A i \in 1..Len(Unsigned(s)) : Unsigned(s)[i] \in DigitChars

\* C19: when x-user-id is absent or is not a decimal integer, Chat emits
\* exactly one message, the Unauthorized answer, ends the stream, and invokes
\* no embedder, cache, vector store, chunk store, reranker or LLM.
C19_UnauthorizedSingleMessage ==
    (chat_pc # "idle" /\ (~req.x_user_id.present \/ ~DecimalInteger(req.x_user_id.value))) =>
        /\ chat_pc = "done"
        /\ Len(msgs) = 1 /\ msgs[1].kind = "unauthorized"
        /\ calls = <<>>

\* C20: when the LLM client yields its synthetic error chunk, Chat forwards
\* the chunk, sends no message with source documents, and saves nothing to
\* the semantic cache.
C20_LLMErrorForwardedNoSourcesNoSave ==
    (\E i \in 1..Len(llm_out) : llm_out[i] = "error") =>
        /\ "error" \in MsgKinds
        /\ \A i \in 1..Len(msgs) : ~IsSourcesMsg(msgs[i]) /\ msgs[i].sources = <<>>
        /\ "save_to_cache" \notin Invoked
        /\ chat_pc \in {"llm", "done", "cancelled"}

C20_Witness ==
    /\ chat_pc = "done" /\ llm_out = <<"text", "error">>
    /\ Len(msgs) = 2

\* the hit has a row in the chunk store
HasRow(h) == \E r \in chunkRows : r.id = h.id

\* the hits of the call that have a chunk row, in hit order
HydratedHits == SelectSeq(raw_hits, HasRow)

SearchReturned == \E i \in CallsOf("search") : calls[i].outcome = "ok"

ChunksFetched == \E i \in CallsOf("get_chunks") : calls[i].outcome = "ok"

\* C28: the reranker is handed exactly the hits that have a chunk row, in hit
\* order, each with the content of its row; when the search returns no hits,
\* or no hit has a chunk row, the call ends with exactly one explanatory
\* message and invokes neither the reranker nor the LLM.
C28_RerankerGetsHydratedHits ==
    /\ "rerank" \in Invoked =>
        /\ Len(passages) = Len(HydratedHits)
        /\ \A j \in 1..Len(passages) :
            /\ j <= Len(HydratedHits) /\ passages[j].id = HydratedHits[j].id
            /\ \E r \in chunkRows : r.id = passages[j].id /\ passages[j].text = r.content
    /\ (SearchReturned /\ raw_hits = <<>>) =>
        /\ chat_pc = "done"
        /\ Len(msgs) = 1 /\ msgs[1].kind = "no_documents"
        /\ Invoked \cap {"get_chunks", "rerank", "llm"} = {}
    /\ (ChunksFetched /\ HydratedHits = <<>>) =>
        /\ chat_pc = "done"
        /\ Len(msgs) = 1 /\ msgs[1].kind = "no_content"
        /\ Invoked \cap {"rerank", "llm"} = {}

\* a search whose hits include a stale point: the reranker got fewer passages
\* than there were hits
C28_Witness ==
    /\ "rerank" \in Invoked
    /\ passages # <<>> /\ Len(passages) < Len(raw_hits)

\* a call that ended on the no-content path
C28_NoContentReached ==
    ChunksFetched /\ raw_hits # <<>> /\ HydratedHits = <<>> /\ chat_pc = "done"

(***************************************************************************)
(* Chunk rows and vector points                                            *)
(***************************************************************************)
\* C11: after any interleaving of worker executions of a document's task -
\* retried attempts, a message delivered again after the worker was lost - no
\* two rows of the chunk store share the same (document_id, chunk_index).
C11_ChunkIndexUnique ==
    \A r1, r2 \in chunkRows :
        (r1.document_id = r2.document_id /\ r1.chunk_index = r2.chunk_index) => r1 = r2

\* the rows of the chunk store that have the id of point p
RowsOf(p) == {r \in chunkRows : r.id = p.id /\ r.document_id = p.document_id}

\* C12: the worker issues the vector upsert only after the transaction that
\* inserts all chunk rows of the document has committed: whenever the upsert
\* is about to run every chunk id it will write has its row, and at no moment
\* is there a point whose chunk_id has no chunk row.
C12_UpsertAfterRowsCommitted ==
    /\ task_pc = "upsert" =>
        /\ Len(chunk_ids) = file.nchunks
        /\ \A i \in 1..Len(chunk_ids) : \E r \in chunkRows : r.id = chunk_ids[i]
    /\ \A p \in docsColl : RowsOf(p) # {}

C12_Witness ==
    /\ task_pc = "done" /\ final_status = "COMPLETED"
    /\ Cardinality(docsColl) = 2 /\ \A p \in docsColl : RowsOf(p) # {}

(***************************************************************************)
(* DeleteDocument                                                          *)
(***************************************************************************)
PointsOfDocument(d) == {p \in docsColl : p.document_id = d}

DeleteSucceeded == kb_resp.op = "delete" /\ kb_resp.status = "success"

ParsedWithoutError ==
    /\ file.exists /\ file.size <= maximum_file_size
    /\ file.name_ok /\ file.ext_ok
    /\ attempt = 1 /\ other_faults = 0
    /\ task_pc \in {"finally", "done"}

\* C29: when parsing yields zero chunks, the attempt never reaches the chunk
\* insert, the embedding or the upsert, and its terminal notification reports
\* COMPLETED with chunks_count 0 and a non-empty message.
C29_ZeroChunksCompleted ==
    /\ file.nchunks = 0 =>
        /\ task_pc \notin {"store", "embed", "upsert"}
        /\ chunkRows = {} /\ docsColl = {} /\ upsert_calls = 0 /\ chunk_ids = <<>>
    /\ (file.nchunks = 0 /\ ParsedWithoutError) =>
        /\ final_status = "COMPLETED" /\ final_chunks_count = 0
        /\ final_error_message # ""
        /\ task_pc = "done" =>
            LET last == notifications[Len(notifications)] IN
            /\ Len(notifications) = 2
            /\ last.status = "COMPLETED" /\ last.chunks_count = 0
            /\ last.error_message # ""

\* a task whose file parsed to zero chunks has ended
C29_Witness ==
    /\ file.nchunks = 0 /\ ParsedWithoutError /\ task_pc = "done"
    /\ notifications[Len(notifications)].status = "COMPLETED"
    /\ notifications[Len(notifications)].success

\* the first attempt of the task has made its file checks, with the file on
\* disk
SizeChecked == file.exists /\ attempt = 1

\* C30: a file of exactly maximum_file_size passes the size check and a file
\* one byte larger is rejected with an error, in the worker (the attempt ends
\* with status ERROR and the size message, without a retry) and in the
\* streaming upload (the response is the error of the cumulative-size check).
C30_SizeLimitInclusive ==
    /\ (SizeChecked /\ file.size = 50 * 1024 * 1024) =>
        final_error_message # "File size exceeds maximum"
    /\ (SizeChecked /\ file.size = 50 * 1024 * 1024 + 1) =>
        /\ task_pc \in {"finally", "done"}
        /\ final_status = "ERROR" /\ body_result = "return"
        /\ final_error_message = "File size exceeds maximum"
    /\ (kb_resp.op = "upload" /\ kb_sent = 50 * 1024 * 1024) =>
        kb_resp.message # "File size exceeds the maximum limit"
    /\ (kb_resp.op = "upload" /\ kb_sent = 50 * 1024 * 1024 + 1) =>
        /\ kb_resp.status = "error"
        /\ kb_resp.message = "File size exceeds the maximum limit"

\* an upload of exactly the maximum size was indexed, and a task whose file
\* has exactly the maximum size was completed
C30_Witness ==
    /\ kb_resp.op = "upload" /\ kb_sent = 50 * 1024 * 1024
    /\ kb_resp.status = "success"
    /\ SizeChecked /\ file.size = 50 * 1024 * 1024
    /\ task_pc = "done" /\ final_status = "COMPLETED" /\ final_chunks_count > 0

\* both checks have rejected a file one byte above the maximum
C30_RejectedReached ==
    /\ kb_resp.op = "upload" /\ kb_sent = 50 * 1024 * 1024 + 1
    /\ SizeChecked /\ file.size = 50 * 1024 * 1024 + 1 /\ task_pc = "done"
(***************************************************************************)
(* The providers' stream: failures, chunking, completeness                 *)
(***************************************************************************)
\* C21: for each backend, if the vendor call or the vendor stream raises at
\* any point, generate_response emits exactly one "Error generating response"
\* chunk, that chunk is the last one of the stream (nothing is emitted after
\* it), and the generator ends without raising; without a vendor failure no
\* such chunk is emitted.
C21_RaiseYieldsOneFinalErrorChunk ==
    /\ [](vendor_raised => errChunks = 1 /\ llm_pc = "done")
    /\ [](~vendor_raised => errChunks = 0)
    /\ [][vendor_raised => outPos' = outPos /\ errChunks' = errChunks]_vars

\* the stream raised after some text was emitted and with text still buffered
C21_Witness ==
    /\ vendor_raised /\ errChunks = 1 /\ llm_pc = "done"
    /\ outPos # <<>> /\ bufLo <= pos

\* the scrubbing loop ran to the end of the vendor stream
ScrubbedToEnd ==
    llm_pc = "done" /\ ~vendor_raised /\ provider \in {"openai", "anthropic"}

\* C22: the concatenated output of the scrubber does not depend on the
\* chunking: at the end of every stream it equals the output of scrubbing the
\* same vendor text delivered as a single chunk.
C22_OutputIndependentOfChunking ==
    ScrubbedToEnd => TextAt(vendor, outPos) = ScrubRun(vendor, SingleChunk(vendor))

\* C23: the scrubber is idempotent: feeding the concatenated output of a
\* finished stream back through the scrubber (as a single chunk, or one
\* character per chunk) returns that output unchanged.
C23_ScrubberIdempotent ==
    ScrubbedToEnd =>
        LET out == TextAt(vendor, outPos) IN
        /\ ScrubRun(out, SingleChunk(out)) = out
        /\ ScrubRun(out, CharChunks(out)) = out

\* position p of s lies in an occurrence of a start or end tag
InSomeTag(s, p) ==
    \E n \in 1..Len(START_TAGS) :
        \E i \in 1..p :
            \/ TagAt(s, i, START_TAGS[n]) /\ p <= i + Len(START_TAGS[n]) - 1
            \/ TagAt(s, i, END_TAGS[n]) /\ p <= i + Len(END_TAGS[n]) - 1

\* position p of s is text outside all thinking regions: it is not part of a
\* tag, and every start tag before it is followed by a closing tag before it
OutsideThinking(s, p) ==
    /\ ~InSomeTag(s, p)
    /\ \A n \in 1..Len(START_TAGS) :
        \A i \in 1..p :
            TagAt(s, i, START_TAGS[n]) =>
                \E m \in 1..Len(END_TAGS) :
                    \E k \in (i + Len(START_TAGS[n]))..p :
                        TagAt(s, k, END_TAGS[m]) /\ k + Len(END_TAGS[m]) - 1 < p

\* C24: by the end of the stream every character of the vendor output outside
\* all thinking regions has been emitted, and the emitted characters are in
\* their original order.
C24_TextOutsideThinkingEmitted ==
    ScrubbedToEnd =>
        /\ \A p \in 1..Len(vendor) :
            OutsideThinking(vendor, p) => \E i \in 1..Len(outPos) : outPos[i] = p
        /\ \A i \in 1..Len(outPos) : \A j \in 1..Len(outPos) :
            i < j => outPos[i] < outPos[j]

(***************************************************************************)
(* The context budget                                                      *)
(***************************************************************************)
\* the remaining budget of the call: max_context_tokens - reserve_output_tokens
\* - 50 - tokens(system prompt) - tokens(query) - tokens(history)
RemainingBudget ==
    tc_args.max_context_tokens - tc_args.reserve_output_tokens - 50
        - Len(tc_args.system_prompt) - Len(tc_args.query)
        - (IF tc_args.history = <<>> THEN 0 ELSE Len(tc_args.history[1].content))

RECURSIVE SumTokens(_)
SumTokens(docs) ==
    IF docs = <<>> THEN 0 ELSE Len(Head(docs).text) + SumTokens(Tail(docs))

\* the returned documents are documents of the input list, in its order
InInputOrder ==
    LET sel == tc_result.selected_docs IN
    /\ \A i \in 1..Len(sel) :
        sel[i].rank \in 1..Len(tc_args.context_docs)
        /\ sel[i] = tc_args.context_docs[sel[i].rank]
    /\ \A i \in 1..Len(sel) : \A j \in 1..Len(sel) :
        i < j => sel[i].rank < sel[j].rank

\* C26 (as stated): the returned documents sum to at most the remaining
\* budget and keep the relative order of the input; whenever the remaining
\* budget is zero or negative, no document is returned and truncation is
\* reported.
C26_WithinBudgetInOrder ==
    tc_result.returned =>
        /\ InInputOrder
        /\ RemainingBudget > 0 => SumTokens(tc_result.selected_docs) <= RemainingBudget
        /\ RemainingBudget <= 0 =>
            tc_result.selected_docs = <<>> /\ tc_result.was_truncated

\* C26 (amended): as above, but with a remaining budget of zero or less
\* truncation is reported only when the input list is not empty; for an empty
\* input list no document is returned and no truncation is reported.
C26_WithinBudgetInOrderNonEmpty ==
    tc_result.returned =>
        /\ InInputOrder
        /\ RemainingBudget > 0 => SumTokens(tc_result.selected_docs) <= RemainingBudget
        /\ RemainingBudget <= 0 /\ tc_args.context_docs # <<>> =>
            tc_result.selected_docs = <<>> /\ tc_result.was_truncated
        /\ tc_args.context_docs = <<>> =>
            tc_result.selected_docs = <<>> /\ ~tc_result.was_truncated

\* a call that had to drop a document and returned one that uses up the budget
C26_Witness ==
    /\ tc_result.returned /\ tc_result.was_truncated
    /\ RemainingBudget > 0
    /\ tc_result.selected_docs # <<>>
    /\ SumTokens(tc_result.selected_docs) = RemainingBudget

\* C27: the selected documents form a prefix of the input list: no document
\* is selected after a higher-ranked document has been dropped.
C27_SelectedIsPrefix ==
    tc_result.returned =>
        \A i \in 1..Len(tc_result.selected_docs) :
            tc_result.selected_docs[i] = tc_args.context_docs[i]

\* the token count of the context Chat handed to the LLM
RECURSIVE ContextTokens(_)
ContextTokens(texts) ==
    IF texts = <<>> THEN 0 ELSE Len(Head(texts)) + ContextTokens(Tail(texts))

\* C25: whatever the settings max_context_tokens and reserve_output_tokens,
\* the context Chat passes to the LLM fits the budget: tokens(system prompt)
\* + tokens(query) + tokens(history) + tokens(context) <= max_context_tokens
\* - reserve_output_tokens - 50 (here for a one-token query, no history and
\* the system prompt not counted, the case most favourable to the handler,
\* and for the settings under which the query alone fits).
C25_ChatContextWithinBudget ==
    "llm" \in Invoked =>
        \A max_context_tokens \in ContextLimits :
            \A reserve_output_tokens \in OutputReserves :
                1 <= max_context_tokens - reserve_output_tokens - 50 =>
                    1 + ContextTokens(context_docs)
                        <= max_context_tokens - reserve_output_tokens - 50

(***************************************************************************)
(* Claims about cache scopes, deletion and the upload protocol             *)
(***************************************************************************)
\* the identifiers an entry carries are those of exactly one of the three scopes
UserScopeEntry(e) == e.user_id # None /\ e.group_ids = {} /\ e.organization_id = None
GroupScopeEntry(e) == e.user_id = None /\ e.group_ids # {} /\ e.organization_id = None
OrgGroupScopeEntry(e) == e.user_id = None /\ e.group_ids # {} /\ e.organization_id # None

OneScope(e) == UserScopeEntry(e) \/ GroupScopeEntry(e) \/ OrgGroupScopeEntry(e)

\* a call with no user_id and no group_ids writes nothing and does not call
\* the engine
NoScopeWritesNothing ==
    (lastCache.op = "save_to_cache" /\ lastCache.user_id = None
            /\ lastCache.group_ids = {}) =>
        (~lastCache.engine /\ ~lastCache.wrote)

\* C31: every entry written by save_to_cache carries the identifiers of
\* exactly one scope (user_id only, group_ids only, or organization_id with
\* group_ids), and a call with no user_id and no group_ids writes nothing and
\* does not call the engine
C31_EntryCarriesOneScope ==
    /\ \A e \in cacheColl : OneScope(e)
    /\ NoScopeWritesNothing

\* C32: DeleteDocument deletes the document's vector points if and only if
\* delete_document_for_user reports that no other user remains linked to the
\* document; when other users are still linked it only unlinks the caller,
\* returns success and leaves the vectors in place.  As a property of every
\* DeleteDocument step: the docs collection changes only when the caller was
\* the only linked user, and then by the removal of the document's points; a
\* successful call after which no user is linked leaves no point of the
\* document; a successful call after which users are linked removes at most
\* the caller's link and changes neither the documents nor the points.
C32_DeleteStep ==
    LET d == kb_resp'.document_id
        before == LinkedUserCount(links, d)
        remaining == LinkedUserCount(links', d)
    IN (kb_resp'.op = "delete" /\ kb_resp'.n = kbCalls + 1) =>
          /\ docsColl' # docsColl =>
                /\ remaining = 0 /\ before <= 1
                /\ docsColl' = DeleteByDocument(docsColl, d)
          /\ (kb_resp'.status = "success" /\ remaining = 0) =>
                {p \in docsColl' : p.document_id = d} = {}
          /\ (kb_resp'.status = "success" /\ remaining > 0) =>
                /\ docsColl' = docsColl /\ documents' = documents
                /\ links' \subseteq links /\ Cardinality(links \ links') <= 1
                /\ before <= remaining + 1

C32_VectorsDeletedIffNoUserRemains == [][C32_DeleteStep]_vars

\* a document of two users, with points, was deleted by one of them: the
\* other is still linked and the points are in place
C32_Witness ==
    /\ DeleteSucceeded
    /\ LinkedUserCount(links, kb_resp.document_id) = 1
    /\ PointsOfDocument(kb_resp.document_id) # {}
    /\ \E x \in documents : x.id = kb_resp.document_id

\* C33: in the UploadDocument stream protocol, a data chunk received before
\* any metadata message, a second metadata message, or a stream that ends
\* without metadata makes the call return status error, and in each of these
\* cases no document is registered, no chunk row is stored and no vector is
\* upserted.
C33_UploadStep ==
    (/\ kb_resp'.op = "upload" /\ kb_resp'.n = kbCalls + 1
     /\ kb_stream' \in {"chunk_before_metadata", "second_metadata", "no_metadata"}) =>
        /\ kb_resp'.status = "error"
        /\ documents' = documents /\ links' = links
        /\ chunkRows' = chunkRows /\ docsColl' = docsColl

C33_ProtocolViolationIsError == [][C33_UploadStep]_vars

\* each of the three violations has been answered, the last one after a
\* successful upload
C33_WitnessChunkFirst ==
    kb_resp.op = "upload" /\ kb_stream = "chunk_before_metadata" /\ documents # {}

C33_WitnessSecondMetadata ==
    kb_resp.op = "upload" /\ kb_stream = "second_metadata" /\ documents # {}

C33_Witness ==
    /\ kb_resp.op = "upload" /\ kb_stream = "no_metadata"
    /\ kb_resp.status = "error" /\ documents # {} /\ docsColl # {}

(***************************************************************************)
(* Chat: organization context, cached answers, termination                 *)
(***************************************************************************)
\* C34: Chat called with a valid x-user-id but without an x-organization-id
\* emits exactly one response, whose answer states that the organization
\* context is not provided.  The handler has four fixed answers
\* (Unauthorized, no documents, no content, internal error); a message that
\* states the missing organization context would be of a fifth kind.
C34_MissingOrganizationSingleMessage ==
    (chat_pc = "done" /\ req.user_id # None /\ req.organization_id = None) =>
        /\ Len(msgs) = 1
        /\ msgs[1].kind = "organization_not_provided"

\* the weaker statement that such a call emits exactly one response
C34_MissingOrganizationOneResponse ==
    (chat_pc = "done" /\ req.user_id # None /\ req.organization_id = None) =>
        Len(msgs) = 1

\* the documents the tenant filter of the call in flight admits
AdmittedDocuments == {p.document_id : p \in {q \in docsColl : TenantAdmits(req, q)}}

\* C35: every answer that Chat serves from the semantic cache was generated
\* only from documents that the requesting call's own tenant filter would
\* admit: a requester whose group_ids merely overlap those of the request
\* that populated the entry never receives text derived from documents of a
\* group the requester does not belong to.
C35_CachedAnswerFromAdmittedDocuments ==
    \A t \in CachedServed : t.docs \subseteq AdmittedDocuments

\* the case of merely overlapping groups alone: the same user asks again with
\* fewer groups
C35_OverlappingGroups ==
    \A t \in CachedServed :
        (req.group_ids # {} /\ t.from.group_ids \cap req.group_ids # {}) =>
            t.docs \subseteq AdmittedDocuments

(***************************************************************************)
(* Ingestion: ERROR notifications across retries                           *)
(***************************************************************************)
\* the ERROR notifications the control plane has received
ErrorNotifications ==
    {i \in 1..Len(notifications) : notifications[i].status = "ERROR"}

\* C36: for one ingestion task, the control plane receives an ERROR terminal
\* notification at most once across all retry attempts, and never receives
\* ERROR for an attempt whose failure is subsequently retried (an attempt
\* after which a further attempt has started).
C36_ErrorNotifiedOnceNotBeforeRetry ==
    /\ Cardinality(ErrorNotifications) <= 1
    /\ \A i \in ErrorNotifications : notifications[i].attempt = attempt

\* the first half alone
C36_ErrorNotifiedAtMostOnce == Cardinality(ErrorNotifications) <= 1

(***************************************************************************)
(* Chat after DeleteDocument                                               *)
(***************************************************************************)
\* the seeded documents whose vectors a DeleteDocument call has removed
ForgottenDocuments ==
    {d \in {p.document_id : p \in SeedPoints} : \A p \in docsColl : p.document_id # d}

\* the step sends a message to the client
Sends(kinds) ==
    /\ Len(msgs') = Len(msgs) + 1
    /\ msgs'[Len(msgs')].kind \in kinds

\* a relayed LLM chunk was not generated from a forgotten document
LLMTextStep ==
    Sends({"text"}) =>
        {ranked[i].document_id : i \in 1..Len(ranked)} \cap ForgottenDocuments = {}

\* a cached answer was not generated from a forgotten document
CachedTextStep ==
    Sends({"cached"}) => msgs'[Len(msgs')].text.docs \cap ForgottenDocuments = {}

\* C37: after DeleteDocument(d) has succeeded and removed d's vectors, no
\* later Chat response contains answer text that was generated from d's
\* chunks; in particular a cache entry created from d before the deletion is
\* not served afterwards.
C37_NoTextFromDeletedDocument == [][LLMTextStep /\ CachedTextStep]_vars

\* the first half for the text the LLM generates in the call
C37_NoLLMTextFromDeletedDocument == [][LLMTextStep]_vars

\* a call that started after the deletion of document 1 relayed LLM text
C37_LLMTextAfterDelete ==
    /\ ForgottenDocuments # {} /\ chat_pc = "llm"
    /\ \E i \in 1..Len(msgs) : msgs[i].kind = "text"

(***************************************************************************)
(* Termination of Chat                                                     *)
(***************************************************************************)
\* the call is in flight
ChatInFlight == chat_pc \in {"embed", "cache", "cached_tail", "search", "hydrate", "llm", "final"}

\* C38: every Chat call terminates after emitting a finite, non-empty
\* sequence of response messages, for every combination of embedder, cache,
\* vector store, chunk store, reranker and LLM outcomes (including exceptions
\* and an LLM stream that yields nothing), provided each collaborator call
\* itself returns or raises.  A call in flight reaches its end (or is
\* cancelled by the client), and a call that has ended has sent at least one
\* message and at most one per LLM chunk plus the final one.
C38_ChatTerminatesNonEmpty ==
    /\ [](chat_pc = "done" => (Len(msgs) >= 1 /\ Len(msgs) <= MaxLLMChunks + 1))
    /\ (ChatInFlight ~> chat_pc \in {"done", "cancelled"})

\* a call whose LLM stream yielded nothing has ended with the final message
C38_Witness ==
    /\ chat_pc = "done" /\ "llm" \in Invoked /\ llm_out = <<>>
    /\ Len(msgs) = 1

\* a call in which the reranker raised has ended
C38_RerankRaisedReached ==
    /\ chat_pc = "done"
    /\ \E i \in CallsOf("rerank") : calls[i].outcome = "raised"
    /\ Len(msgs) = 1 /\ msgs[1].kind = "internal_error"

(***************************************************************************)
(* Uploads                                                                 *)
(***************************************************************************)
UploadSucceeded == kb_resp.op = "upload" /\ kb_resp.status = "success"

\* C39: whenever UploadDocument returns status success for a file, vector
\* points for that document's chunks exist in the docs collection - for
\* every sequence of uploads, including a re-upload of a file whose earlier
\* upload failed after the document row had been registered.
C39_SuccessMeansPointsExist ==
    UploadSucceeded => PointsOfDocument(kb_resp.document_id) # {}

\* both uploads are over, and the files were byte-identical
IdenticalUploadsDone ==
    /\ \A u \in Users : uploads[u].pc = "done"
    /\ \A u, v \in Users : uploads[u].file_hash = uploads[v].file_hash

\* the document rows that hold the uploaded file
RowsOfUploaded(u) == {x \in documents : x.file_hash = uploads[u].file_hash}

\* C40: when two users concurrently upload byte-identical new files, both
\* UploadDocument calls return success and exactly one document row exists
\* afterwards, linked to both users.
C40_ConcurrentUploadsBothSucceed ==
    IdenticalUploadsDone =>
        \A u \in Users :
            /\ uploads[u].status = "success"
            /\ Cardinality(RowsOfUploaded(u)) = 1
            /\ \A x \in RowsOfUploaded(u) : <<u, x.id>> \in links

\* the same uploads one after the other do succeed
C40_BothSucceedReached ==
    /\ IdenticalUploadsDone
    /\ \A u \in Users : uploads[u].status = "success"
    /\ \A u \in Users : \A x \in RowsOfUploaded(u) : <<u, x.id>> \in links
====
